---- MODULE Spec2Model ----
(***************************************************************************)
(* forest-team: the proximity-based visit tracker (zustand store           *)
(* useVisitTrackingStore + the effect of useControlVisitTracking) and the  *)
(* entity deduplication of courseRenderer.ts (extractUniqueControls,       *)
(* extractUniqueStarts, extractUniqueFinishes).                            *)
(*                                                                         *)
(* Numbers.  A JavaScript number is modelled as a record [kind, v]:        *)
(* Num(n) is the finite value n, NaN is not-a-number, NegZero is -0.       *)
(* Coordinates are counted in grid units of 360/FullTurn degrees; one unit *)
(* of arc on the sphere of radius R = 6371e3 m is one metre (to 1e-8), so  *)
(* the great-circle distance of two grid points is an integer computation. *)
(***************************************************************************)
EXTENDS Integers, Sequences, FiniteSets, TLC

VARIABLES
    visitedControls,         \* store: Set<string> of visited Control.id
    visitDistanceThreshold,  \* store: metres
    isTrackingEnabled,       \* store: boolean
    gpsPosition,             \* hook argument: the held GPSPosition, or NULL
    selectedTab,             \* MapPage state: "all" or a course id
    arrivedWhileDisabled,    \* the held position arrived with tracking disabled
    lastOp,                  \* the operation that produced this state, its argument
    prev,                    \* the store and hook state before that operation
    courses,                 \* Course[] handed to the hook / the extractors
    pc,                      \* position of the deduplication run
    uniqueControls,          \* result of extractUniqueControls
    uniqueStarts,            \* result of extractUniqueStarts
    uniqueFinishes,          \* result of extractUniqueFinishes
    geomCourse,              \* the Course handed to the geometry builders
    geomPc,                  \* position of the geometry run
    polylines,               \* result of createCoursePolylines
    edge,                    \* last getCircleEdgePoint call: arguments, result
    lineWidth,               \* last calculateLineWidth call: arguments, result
    lineWidthBefore,         \* the calculateLineWidth call before that
    label,                   \* last findNonOverlappingPosition call
    labelPositions,          \* createNumberedControlsLayer: its labelPositions
    labelRuns,               \* label positions of each numbered-layer run
    angleAverage,            \* the last call of averageAngles and its result
    useProjectedCoords,      \* MapPage state
    map,                     \* MapPage state: the Leaflet map is set
    zoomState,               \* CourseLayer / ControlsLayer state: zoom
    courseTimeout,           \* CourseLayer: its setTimeout is pending
    controlsTimeout,         \* ControlsLayer: its setTimeout is pending
    currentLayers,           \* CourseLayer: layersRef, course id -> layer on the map
    layerRef,                \* ControlsLayer: the layer on the map, or NULL
    console,                 \* messages of the last render or callback
    computed,                \* geometry built by the last step: by whom, for whom
    geolocation,             \* navigator.geolocation is present
    watchIDs,                \* browser: the watch ids registered and not cleared
    positionTasks,           \* browser: queued success callbacks, oldest first
    watchId,                 \* GPSTracker: number | null
    callbacks,               \* GPSTracker: Set<GPSCallback>, in insertion order
    errorCallbacks,          \* GPSTracker: Set<GPSErrorCallback>
    lastPosition,            \* GPSTracker: GPSPosition | null
    watchCalls,              \* watchPosition calls since the last stop call
    gpsOp,                   \* the last tracker operation, watchId before it
    invoked,                 \* the callback invocations of the last step
    unsubscribed,            \* callbacks whose unsubscribe function has run
    hookIsTracking,          \* useGPSTracking state: isTracking
    hookPosition,            \* useGPSTracking state: position
    hookError                \* useGPSTracking state: error

vars == << visitedControls, visitDistanceThreshold, isTrackingEnabled,
           gpsPosition, selectedTab, arrivedWhileDisabled, lastOp, prev,
           courses, pc,
           uniqueControls, uniqueStarts, uniqueFinishes,
           geomCourse, geomPc, polylines, edge,
           lineWidth, lineWidthBefore, label, labelPositions, labelRuns,
           angleAverage,
           useProjectedCoords, map, zoomState, courseTimeout, controlsTimeout,
           currentLayers, layerRef, console, computed,
           geolocation, watchIDs, positionTasks, watchId, callbacks,
           errorCallbacks, lastPosition, watchCalls, gpsOp, invoked,
           unsubscribed, hookIsTracking, hookPosition, hookError >>

trackerVars == << visitedControls, visitDistanceThreshold, isTrackingEnabled,
                  gpsPosition, selectedTab, arrivedWhileDisabled, lastOp,
                  prev >>

dedupVars == << pc, uniqueControls, uniqueStarts, uniqueFinishes >>

geomVars == << geomCourse, geomPc, polylines, edge >>

scaleVars == << lineWidth, lineWidthBefore >>

labelVars == << label, labelPositions, labelRuns, angleAverage >>

layerVars == << useProjectedCoords, map, zoomState, courseTimeout,
               controlsTimeout, currentLayers, layerRef, console, computed >>

gpsVars == << geolocation, watchIDs, positionTasks, watchId, callbacks,
             errorCallbacks, lastPosition, watchCalls, gpsOp, invoked,
             unsubscribed, hookIsTracking, hookPosition, hookError >>

NULL == [kind |-> "null"]

-----------------------------------------------------------------------------
(* JavaScript numbers *)

Num(n) == [kind |-> "num", v |-> n]

NaN == [kind |-> "nan", v |-> 0]

NegZero == [kind |-> "negzero", v |-> 0]

IsNaN(x) == x.kind = "nan"

\* a === b on numbers: NaN equals nothing, -0 equals 0
StrictEq(a, b) == ~IsNaN(a) /\ ~IsNaN(b) /\ a.v = b.v

\* String(x), as a template literal formats a number
NumberToString(x) ==
    IF IsNaN(x) THEN "NaN" ELSE ToString(x.v)

Pos(lat, lng) == [lat |-> Num(lat), lng |-> Num(lng)]

Abs(n) == IF n < 0 THEN -n ELSE n

RECURSIVE ISqrtIn(_, _, _)
\* largest r in lo..hi with r*r <= x, by bisection (lo*lo <= x < (hi+1)^2)
ISqrtIn(x, lo, hi) ==
    IF lo >= hi THEN lo
    ELSE LET mid == (lo + hi + 1) \div 2
         IN  IF mid * mid <= x THEN ISqrtIn(x, mid, hi)
                               ELSE ISqrtIn(x, lo, mid - 1)

ISqrt(x) == ISqrtIn(x, 0, 46340)

-----------------------------------------------------------------------------
(* shared/utils/coordinate: Haversine distance *)

\* grid units in a full turn: 2 * pi * R metres of arc, R = 6371e3
FullTurn == 40030174

\* 2 * atan2(|sin(d/2)|, |cos(d/2)|): the angle d folded into [0, half turn]
AngularSeparation(d) ==
    LET m == Abs(d) % FullTurn
    IN  IF m > FullTurn - m THEN FullTurn - m ELSE m

\* calculateDistance, in whole metres (rounded down), NaN when a coordinate
\* is NaN.  a = sin^2(dphi/2) + cos(phi1) cos(phi2) sin^2(dlambda/2) is
\* evaluated for points whose latitude is within a few hundred metres of the
\* equator (modulo a full turn), where cos(phi) = 1 to 1e-8 and
\* c = 2 atan2(sqrt a, sqrt(1-a)) = sqrt(sep(dphi)^2 + sep(dlambda)^2).
calculateDistance(pos1, pos2) ==
    IF IsNaN(pos1.lat) \/ IsNaN(pos1.lng) \/ IsNaN(pos2.lat) \/ IsNaN(pos2.lng)
    THEN NaN
    ELSE LET dphi == AngularSeparation(pos2.lat.v - pos1.lat.v)
             dlam == AngularSeparation(pos2.lng.v - pos1.lng.v)
         IN  Num(ISqrt(dphi * dphi + dlam * dlam))

\* a comparison with NaN is false
isWithinDistanceStrict(position, target, threshold) ==
    LET d == calculateDistance(position, target)
    IN  ~IsNaN(d) /\ d.v < threshold

isWithinDistance(position, target, threshold) ==
    LET d == calculateDistance(position, target)
    IN  ~IsNaN(d) /\ d.v <= threshold

-----------------------------------------------------------------------------
(* The event whose courses the map page holds while the tracker runs *)

Control(id, code, number, lat, lng) ==
    [id |-> id, code |-> code, number |-> number, position |-> Pos(lat, lng)]

Course(id, name, start, finish, controls) ==
    [id |-> id, name |-> name, color |-> "#ff0000", visible |-> TRUE,
     start |-> start, finish |-> finish, controls |-> controls]

\* two courses that share the control 31 at (0, 0)
EventCourses ==
    << Course("A", "Course A", Pos(0, -60), Pos(0, 100),
              << Control("a1", "31", 1, 0, 0), Control("a2", "32", 2, 0, 40) >>),
       Course("B", "Course B", Pos(0, -60), Pos(60, 100),
              << Control("b1", "31", 1, 0, 0), Control("b2", "33", 2, 30, 40) >>) >>

\* GPS samples the browser may deliver: on a control, on the 10 m boundary,
\* 11 m and 5 m away, far away, NaN, and a longitude a full turn out of range
GPSSamples ==
    { [position |-> Pos(0, 0)], [position |-> Pos(6, 8)],
      [position |-> Pos(0, 11)], [position |-> Pos(0, 45)],
      [position |-> Pos(0, 5000)],
      [position |-> [lat |-> NaN, lng |-> Num(0)]],
      [position |-> Pos(0, FullTurn + 40)] }

\* the thresholds offered by the settings (distanceOptions), smallest three
Thresholds == {5, 10, 15}

Range(s) == { s[i] : i \in 1..Len(s) }

RECURSIVE FlatMapControls(_)
\* courses.flatMap(course => course.controls)
FlatMapControls(cs) ==
    IF cs = << >> THEN << >>
    ELSE Head(cs).controls \o FlatMapControls(Tail(cs))

AllControls(cs) == Range(FlatMapControls(cs))

ControlIds(cs) == { c.id : c \in AllControls(cs) }

CourseIds(cs) == { cs[i].id : i \in 1..Len(cs) }

-----------------------------------------------------------------------------
(* store/visitTrackingStore: the zustand store *)

isControlVisited(visited, controlId) == controlId \in visited

markControlAsVisited(visited, controlId) == visited \cup {controlId}

-----------------------------------------------------------------------------
(* MapPage: the visible course ids handed to the hook *)

visibleCourseIds(tab, cs) ==
    IF tab = "all" THEN CourseIds(cs) ELSE {tab}

\* the controls of every course, visible or not
VisibleControlsUnfiltered(cs, visible) ==
    FlatMapControls(cs)

\* courses.filter(course => visibleCourseIds.has(course.id)).flatMap(...)
VisibleControls(cs, visible) ==
    FlatMapControls(SelectSeq(cs, LAMBDA course : course.id \in visible))

-----------------------------------------------------------------------------
(* useControlVisitTracking: the body of the effect *)

RECURSIVE ForEachControl(_, _, _, _)
\* visibleControls.forEach: skip a visited control, mark one within distance
ForEachControl(controls, visited, position, threshold) ==
    IF controls = << >> THEN visited
    ELSE LET control == Head(controls)
             next ==
                 IF isControlVisited(visited, control.id) THEN visited
                 ELSE IF isWithinDistance(position, control.position, threshold)
                      THEN markControlAsVisited(visited, control.id)
                      ELSE visited
         IN  ForEachControl(Tail(controls), next, position, threshold)

\* the effect without its tracking guard
TrackingEffectUnguarded(visited, gps, cs, visible, threshold, enabled) ==
    IF gps = NULL THEN visited
    ELSE ForEachControl(VisibleControls(cs, visible), visited,
                        gps.position, threshold)

\* the effect replacing the set by the controls now in range
TrackingEffectForgetful(visited, gps, cs, visible, threshold, enabled) ==
    IF gps = NULL \/ ~enabled THEN visited
    ELSE ForEachControl(VisibleControls(cs, visible), {},
                        gps.position, threshold)

\* visitedControls after one run of the effect
TrackingEffect(visited, gps, cs, visible, threshold, enabled) ==
    IF gps = NULL \/ ~enabled THEN visited
    ELSE ForEachControl(VisibleControls(cs, visible), visited,
                        gps.position, threshold)

\* React runs the effect after a render in which a dependency changed
AfterRender(visited, gps, tab, threshold, enabled, depsChanged) ==
    IF depsChanged
    THEN TrackingEffect(visited, gps, courses, visibleCourseIds(tab, courses),
                        threshold, enabled)
    ELSE visited

RECURSIVE ForEachMarkedNoSkip(_, _, _, _)
\* the forEach of the earlier hook: every control within distance is marked
ForEachMarkedNoSkip(controls, visited, position, threshold) ==
    IF controls = << >> THEN << >>
    ELSE LET control == Head(controls)
             marked == isWithinDistance(position, control.position, threshold)
         IN  (IF marked THEN << control.id >> ELSE << >>)
             \o ForEachMarkedNoSkip(Tail(controls),
                    IF marked THEN markControlAsVisited(visited, control.id)
                              ELSE visited,
                    position, threshold)

RECURSIVE ForEachMarked(_, _, _, _)
\* visibleControls.forEach: the control ids handed to markControlAsVisited,
\* in call order; isControlVisited reads the store as the earlier calls of
\* the same pass left it
ForEachMarked(controls, visited, position, threshold) ==
    IF controls = << >> THEN << >>
    ELSE LET control == Head(controls)
             marked == /\ ~isControlVisited(visited, control.id)
                       /\ isWithinDistance(position, control.position,
                                           threshold)
         IN  (IF marked THEN << control.id >> ELSE << >>)
             \o ForEachMarked(Tail(controls),
                    IF marked THEN markControlAsVisited(visited, control.id)
                              ELSE visited,
                    position, threshold)

\* the markControlAsVisited calls (each one a store update) of the effect
\* after a render
MarkCalls(visited, gps, tab, threshold, enabled, depsChanged) ==
    IF ~depsChanged \/ gps = NULL \/ ~enabled THEN << >>
    ELSE ForEachMarked(VisibleControls(courses, visibleCourseIds(tab, courses)),
                       visited, gps.position, threshold)

Snapshot ==
    [visitedControls |-> visitedControls,
     visitDistanceThreshold |-> visitDistanceThreshold,
     isTrackingEnabled |-> isTrackingEnabled,
     gpsPosition |-> gpsPosition,
     selectedTab |-> selectedTab]

-----------------------------------------------------------------------------
(* Operations of the visit tracker *)

\* a GPS sample (a new object) or null reaches the hook as gpsPosition
PositionUpdate(p) ==
    /\ gpsPosition' = p
    /\ arrivedWhileDisabled' = (p # NULL /\ ~isTrackingEnabled)
    /\ visitedControls' =
           AfterRender(visitedControls, p, selectedTab, visitDistanceThreshold,
                       isTrackingEnabled, p # NULL \/ gpsPosition # NULL)
    /\ lastOp' = [op |-> "position", arg |-> p,
                  marks |-> MarkCalls(visitedControls, p, selectedTab,
                                      visitDistanceThreshold, isTrackingEnabled,
                                      p # NULL \/ gpsPosition # NULL)]
    /\ prev' = Snapshot
    /\ UNCHANGED << visitDistanceThreshold, isTrackingEnabled, selectedTab >>

\* the store setter dropping the controls beyond the new threshold
SetVisitDistanceThresholdUnvisit(distance) ==
    /\ visitDistanceThreshold' = distance
    /\ visitedControls' =
           IF gpsPosition = NULL THEN visitedControls
           ELSE { c.id : c \in { x \in AllControls(courses) :
                      /\ x.id \in visitedControls
                      /\ isWithinDistance(gpsPosition.position, x.position,
                                          distance) } }
    /\ lastOp' = [op |-> "setVisitDistanceThreshold", arg |-> distance,
                  marks |-> << >>]
    /\ prev' = Snapshot
    /\ UNCHANGED << isTrackingEnabled, gpsPosition, selectedTab,
                    arrivedWhileDisabled >>

setVisitDistanceThreshold(distance) ==
    /\ visitDistanceThreshold' = distance
    /\ visitedControls' =
           AfterRender(visitedControls, gpsPosition, selectedTab, distance,
                       isTrackingEnabled, distance # visitDistanceThreshold)
    /\ lastOp' = [op |-> "setVisitDistanceThreshold", arg |-> distance,
                  marks |-> MarkCalls(visitedControls, gpsPosition,
                                      selectedTab, distance, isTrackingEnabled,
                                      distance # visitDistanceThreshold)]
    /\ prev' = Snapshot
    /\ UNCHANGED << isTrackingEnabled, gpsPosition, selectedTab,
                    arrivedWhileDisabled >>

setTrackingEnabled(enabled) ==
    /\ isTrackingEnabled' = enabled
    /\ visitedControls' =
           AfterRender(visitedControls, gpsPosition, selectedTab,
                       visitDistanceThreshold, enabled,
                       enabled # isTrackingEnabled)
    /\ lastOp' = [op |-> "setTrackingEnabled", arg |-> enabled,
                  marks |-> MarkCalls(visitedControls, gpsPosition,
                                      selectedTab, visitDistanceThreshold,
                                      enabled, enabled # isTrackingEnabled)]
    /\ prev' = Snapshot
    /\ UNCHANGED << visitDistanceThreshold, gpsPosition, selectedTab,
                    arrivedWhileDisabled >>

\* handleTabChange: visibleCourseIds is recomputed, the effect runs again
SelectTab(tab) ==
    /\ selectedTab' = tab
    /\ visitedControls' =
           AfterRender(visitedControls, gpsPosition, tab,
                       visitDistanceThreshold, isTrackingEnabled,
                       tab # selectedTab)
    /\ lastOp' = [op |-> "selectTab", arg |-> tab,
                  marks |-> MarkCalls(visitedControls, gpsPosition, tab,
                                      visitDistanceThreshold, isTrackingEnabled,
                                      tab # selectedTab)]
    /\ prev' = Snapshot
    /\ UNCHANGED << visitDistanceThreshold, isTrackingEnabled, gpsPosition,
                    arrivedWhileDisabled >>

MarkControlAsVisited(controlId) ==
    /\ visitedControls' = markControlAsVisited(visitedControls, controlId)
    /\ lastOp' = [op |-> "markControlAsVisited", arg |-> controlId,
                  marks |-> << >>]
    /\ prev' = Snapshot
    /\ UNCHANGED << visitDistanceThreshold, isTrackingEnabled, gpsPosition,
                    selectedTab, arrivedWhileDisabled >>

\* reset that also puts the threshold back to its default
ResetAll ==
    /\ visitedControls' = {}
    /\ visitDistanceThreshold' = 10
    /\ lastOp' = [op |-> "resetVisitedControls", arg |-> NULL,
                  marks |-> << >>]
    /\ prev' = Snapshot
    /\ UNCHANGED << isTrackingEnabled, gpsPosition, selectedTab,
                    arrivedWhileDisabled >>

\* visitedControls is no dependency of the effect: it does not run again
resetVisitedControls ==
    /\ visitedControls' = {}
    /\ lastOp' = [op |-> "resetVisitedControls", arg |-> NULL,
                  marks |-> << >>]
    /\ prev' = Snapshot
    /\ UNCHANGED << visitDistanceThreshold, isTrackingEnabled, gpsPosition,
                    selectedTab, arrivedWhileDisabled >>

-----------------------------------------------------------------------------
(* courseRenderer: a JavaScript Map, a sequence of entries in insertion order *)

MapHas(m, key) == \E i \in 1..Len(m) : m[i].key = key

MapGet(m, key) == m[CHOOSE i \in 1..Len(m) : m[i].key = key].value

\* a Map that puts a new key in front
MapSetFront(m, key, value) ==
    IF MapHas(m, key)
    THEN [i \in 1..Len(m) |->
             IF m[i].key = key THEN [key |-> key, value |-> value] ELSE m[i]]
    ELSE << [key |-> key, value |-> value] >> \o m

\* set: a new key goes last, an existing key keeps its place
MapSet(m, key, value) ==
    IF MapHas(m, key)
    THEN [i \in 1..Len(m) |->
             IF m[i].key = key THEN [key |-> key, value |-> value] ELSE m[i]]
    ELSE Append(m, [key |-> key, value |-> value])

\* Array.from(map.values())
MapValues(m) == [i \in 1..Len(m) |-> m[i].value]

\* array.includes(x)
Includes(array, x) == \E i \in 1..Len(array) : array[i] = x

\* a key made of the position alone
ControlKeyNoCode(control) ==
    NumberToString(control.position.lat) \o "_"
        \o NumberToString(control.position.lng)

\* `${control.code}_${control.position.lat}_${control.position.lng}`
ControlKey(control) ==
    control.code \o "_" \o NumberToString(control.position.lat) \o "_"
        \o NumberToString(control.position.lng)

\* `${course.start.lat}_${course.start.lng}`
PositionKey(position) ==
    NumberToString(position.lat) \o "_" \o NumberToString(position.lng)

\* the body of course.controls.forEach with the course entry pushed only when
\* the control id is new to the entry
AddControlOncePerEntry(controlMap, course, control) ==
    LET key == ControlKey(control)
        m1 == IF ~MapHas(controlMap, key)
              THEN MapSet(controlMap, key,
                          [code |-> control.code, position |-> control.position,
                           controlIds |-> << >>, courses |-> << >>])
              ELSE controlMap
        u == MapGet(m1, key)
    IN  IF Len(u.controlIds) = 0
        THEN MapSet(m1, key,
                    [u EXCEPT !.controlIds = << control.id >>,
                              !.courses = << [courseId |-> course.id,
                                              courseName |-> course.name,
                                              courseColor |-> course.color,
                                              controlNumber |-> control.number] >>])
        ELSE m1

\* the body of course.controls.forEach in extractUniqueControls
AddControl(controlMap, course, control) ==
    LET key == ControlKey(control)
        m1 == IF ~MapHas(controlMap, key)
              THEN MapSet(controlMap, key,
                          [code |-> control.code, position |-> control.position,
                           controlIds |-> << >>, courses |-> << >>])
              ELSE controlMap
        u == MapGet(m1, key)
        ids == IF ~Includes(u.controlIds, control.id)
               THEN Append(u.controlIds, control.id)
               ELSE u.controlIds
    IN  MapSet(m1, key,
               [u EXCEPT !.controlIds = ids,
                         !.courses = Append(u.courses,
                                            [courseId |-> course.id,
                                             courseName |-> course.name,
                                             courseColor |-> course.color,
                                             controlNumber |-> control.number])])

RECURSIVE AddControls(_, _, _)
\* course.controls.forEach
AddControls(controlMap, course, controls) ==
    IF controls = << >> THEN controlMap
    ELSE AddControls(AddControl(controlMap, course, Head(controls)), course,
                     Tail(controls))

RECURSIVE AddCourses(_, _)
\* courses.forEach
AddCourses(controlMap, cs) ==
    IF cs = << >> THEN controlMap
    ELSE AddCourses(AddControls(controlMap, Head(cs), Head(cs).controls),
                    Tail(cs))

extractUniqueControls(cs) == MapValues(AddCourses(<< >>, cs))

\* the body of courses.forEach in extractUniqueStarts / extractUniqueFinishes
AddPosition(positionMap, position, name) ==
    LET key == PositionKey(position)
        m1 == IF ~MapHas(positionMap, key)
              THEN MapSet(positionMap, key,
                          [position |-> position, courseNames |-> << >>])
              ELSE positionMap
        u == MapGet(m1, key)
    IN  IF ~Includes(u.courseNames, name)
        THEN MapSet(m1, key, [u EXCEPT !.courseNames = Append(@, name)])
        ELSE m1

RECURSIVE AddStarts(_, _)
AddStarts(startMap, cs) ==
    IF cs = << >> THEN startMap
    ELSE AddStarts(AddPosition(startMap, Head(cs).start, Head(cs).name),
                   Tail(cs))

extractUniqueStarts(cs) == MapValues(AddStarts(<< >>, cs))

RECURSIVE AddFinishes(_, _)
AddFinishes(finishMap, cs) ==
    IF cs = << >> THEN finishMap
    ELSE AddFinishes(AddPosition(finishMap, Head(cs).finish, Head(cs).name),
                     Tail(cs))

extractUniqueFinishes(cs) == MapValues(AddFinishes(<< >>, cs))

-----------------------------------------------------------------------------
(* Inputs of the deduplication *)

\* at most this many courses in an input
MaxCourses == 2

\* at most this many control instances in an input, all courses together
MaxControls == 3

\* code and position of a control instance: the same control, the same with
\* latitude -0, another position, another code at the same position
ControlShapes ==
    { [code |-> "31", position |-> Pos(0, 0)],
      [code |-> "31", position |-> [lat |-> NegZero, lng |-> Num(0)]],
      [code |-> "31", position |-> Pos(0, 1)],
      [code |-> "31_0", position |-> Pos(0, 0)] }

ShapeSeqs(n) == UNION { [1..k -> ControlShapes] : k \in 0..n }

RECURSIVE ShapeLists(_, _)
\* for n courses, the shapes of their controls, at most budget in all
ShapeLists(n, budget) ==
    IF n = 0 THEN { << >> }
    ELSE UNION { { << shapes >> \o rest :
                     rest \in ShapeLists(n - 1, budget - Len(shapes)) } :
                 shapes \in ShapeSeqs(budget) }

CourseId(i) == "course" \o ToString(i)

\* courses that differ in their controls; control ids are distinct
ControlInputs ==
    { [i \in 1..Len(list) |->
          Course(CourseId(i), "Course " \o ToString(i), Pos(0, -60), Pos(0, 100),
                 [j \in 1..Len(list[i]) |->
                     [id |-> "c" \o ToString(i) \o "-" \o ToString(j),
                      code |-> list[i][j].code,
                      number |-> j,
                      position |-> list[i][j].position]])] :
      list \in UNION { ShapeLists(n, MaxControls) : n \in 0..MaxCourses } }

StartPositions == { Pos(0, -60), [lat |-> NegZero, lng |-> Num(-60)], Pos(5, -60) }

FinishPositions == { Pos(0, 100), Pos(60, 100) }

CourseNames == { "Long", "Short" }

\* courses without controls that differ in start, finish and name
StartFinishInputs ==
    UNION { { [i \in 1..n |->
                  Course(CourseId(i), f[i][3], f[i][1], f[i][2], << >>)] :
              f \in [1..n -> StartPositions \X FinishPositions \X CourseNames] } :
            n \in 1..MaxCourses }

-----------------------------------------------------------------------------
(* One render pass: the layers call the three extractors on the courses *)

ExtractUniqueControls ==
    /\ pc = "ready"
    /\ uniqueControls' = extractUniqueControls(courses)
    /\ pc' = "controls"
    /\ UNCHANGED << uniqueStarts, uniqueFinishes >>

ExtractUniqueStarts ==
    /\ pc = "controls"
    /\ uniqueStarts' = extractUniqueStarts(courses)
    /\ pc' = "starts"
    /\ UNCHANGED << uniqueControls, uniqueFinishes >>

ExtractUniqueFinishes ==
    /\ pc = "starts"
    /\ uniqueFinishes' = extractUniqueFinishes(courses)
    /\ pc' = "done"
    /\ UNCHANGED << uniqueControls, uniqueStarts >>

-----------------------------------------------------------------------------
(* courseRenderer: symbol geometry and course line segmentation.           *)
(* Lengths are in decimetres.  A coordinate of a geometry input counts     *)
(* units of 1/1113200 degree: metersPerDegreeLat = 111320 makes one unit   *)
(* one decimetre, and the latitudes are near the equator, where            *)
(* metersPerDegreeLng = 111320 * cos(lat) is the same to 1e-8.             *)

\* transform: pos => [pos.lat, pos.lng]
transform(pos) == << pos.lat.v, pos.lng.v >>

\* radius of a control circle, 37.5 m
ControlRadius == 375

\* radius of the outer finish circle, 45 m
FinishOuterRadius == 450

\* sideLength / Math.sqrt(3) = 51.96 m, centre to vertex of the start triangle
StartVertexRadius == 520

\* Math.sqrt(dx * dx + dy * dy)
Hypot(dx, dy) == ISqrt(dx * dx + dy * dy)

\* n / d rounded toward zero
RoundDiv(n, d) == IF n >= 0 THEN n \div d ELSE -((-n) \div d)

\* Angles are in hundredths of a degree.  1000 * Math.cos of an angle of the
\* first quadrant: of a multiple of 45 degrees, or of the angles 36.87 and
\* 53.13 of a 3-4-5 triangle
CosQuadrant(a) ==
    CASE a = 0 -> 1000
      [] a = 3687 -> 800
      [] a = 4500 -> 707
      [] a = 5313 -> 600
      [] a = 9000 -> 0

\* 1000 * Math.cos(a * Math.PI / 180)
Cos1000(a) ==
    LET m == a % 36000
        h == IF m > 18000 THEN 36000 - m ELSE m
    IN  IF h > 9000 THEN -CosQuadrant(18000 - h) ELSE CosQuadrant(h)

\* 1000 * Math.sin(a * Math.PI / 180)
Sin1000(a) == Cos1000(a - 9000)

\* Math.atan2(y, x) * 180 / Math.PI in (-180, 180], for the directions along
\* an axis or along a 3-4-5 triangle; atan2(0, 0) = 0
Atan2(y, x) ==
    LET d == Hypot(x, y)
        c == IF d = 0 THEN 1000 ELSE (Abs(x) * 1000) \div d
        q == CASE c = 1000 -> 0
               [] c = 800 -> 3687
               [] c = 600 -> 5313
               [] c = 0 -> 9000
        a == IF x >= 0 THEN q ELSE 18000 - q
    IN  IF y < 0 THEN -a ELSE a

\* calculateBearing, for points a few hundred metres apart near the equator:
\* y = sin(dLng) cos(lat2) and x = cos(lat1) sin(lat2) - sin(lat1) cos(lat2)
\* cos(dLng) are the east and north components of the step to 1e-8
calculateBearing(from, to) ==
    LET y == to.lng.v - from.lng.v
        x == to.lat.v - from.lat.v
    IN  (Atan2(y, x) + 36000) % 36000

\* [lat + (radius * cos(bearing)) / metersPerDegreeLat,
\*  lng + (radius * sin(bearing)) / metersPerDegreeLng]
Offset(coords, radius, bearing) ==
    << coords[1] + RoundDiv(radius * Cos1000(bearing), 1000),
       coords[2] + RoundDiv(radius * Sin1000(bearing), 1000) >>

\* createStartMarker: the top vertex of the triangle it draws
createStartMarker(position, firstControl) ==
    LET bearing == IF firstControl # NULL
                   THEN calculateBearing(position, firstControl)
                   ELSE 0
    IN  [top |-> Offset(transform(position), StartVertexRadius, bearing)]

\* getStartTriangleVertex with a north vertex for a null first control
getStartTriangleVertexNorth(start, firstControl) ==
    createStartMarker(start, firstControl).top

getStartTriangleVertex(start, firstControl) ==
    IF firstControl = NULL THEN transform(start)
    ELSE Offset(transform(start), StartVertexRadius,
                calculateBearing(start, firstControl))

\* getCircleEdgePoint stepping from the centre away from `from`
getCircleEdgePointFarSide(from, center, radiusMeters) ==
    LET fromCoords == transform(from)
        centerCoords == transform(center)
        dxMeters == centerCoords[2] - fromCoords[2]
        dyMeters == centerCoords[1] - fromCoords[1]
        distanceMeters == Hypot(dxMeters, dyMeters)
    IN  IF distanceMeters = 0 THEN centerCoords
        ELSE << centerCoords[1] + (dyMeters * radiusMeters) \div distanceMeters,
                centerCoords[2] + (dxMeters * radiusMeters) \div distanceMeters >>

getCircleEdgePoint(from, center, radiusMeters) ==
    LET fromCoords == transform(from)
        centerCoords == transform(center)
        dxMeters == centerCoords[2] - fromCoords[2]
        dyMeters == centerCoords[1] - fromCoords[1]
        distanceMeters == Hypot(dxMeters, dyMeters)
    IN  IF distanceMeters = 0 THEN centerCoords
        ELSE << centerCoords[1] - (dyMeters * radiusMeters) \div distanceMeters,
                centerCoords[2] - (dxMeters * radiusMeters) \div distanceMeters >>

getFinishEdgePoint(lastControl, finish) ==
    getCircleEdgePoint(lastControl, finish, FinishOuterRadius)

\* createCoursePolylines without the segments between the controls
createCoursePolylinesEnds(c) ==
    IF Len(c.controls) = 0
    THEN << << getStartTriangleVertex(c.start, NULL), transform(c.finish) >> >>
    ELSE LET n == Len(c.controls)
         IN  << << getStartTriangleVertex(c.start, c.controls[1].position),
                   getCircleEdgePoint(c.start, c.controls[1].position,
                                      ControlRadius) >>,
                << getCircleEdgePoint(c.finish, c.controls[n].position,
                                      ControlRadius),
                   getFinishEdgePoint(c.controls[n].position, c.finish) >> >>

\* createCoursePolylines: each polyline as the pair of its end points
createCoursePolylines(c) ==
    IF Len(c.controls) = 0
    THEN << << getStartTriangleVertex(c.start, NULL), transform(c.finish) >> >>
    ELSE LET n == Len(c.controls)
             first == << getStartTriangleVertex(c.start, c.controls[1].position),
                         getCircleEdgePoint(c.start, c.controls[1].position,
                                            ControlRadius) >>
             between == [i \in 1..(n - 1) |->
                 << getCircleEdgePoint(c.controls[i + 1].position,
                                       c.controls[i].position, ControlRadius),
                    getCircleEdgePoint(c.controls[i].position,
                                       c.controls[i + 1].position,
                                       ControlRadius) >>]
             last == << getCircleEdgePoint(c.finish, c.controls[n].position,
                                           ControlRadius),
                        getFinishEdgePoint(c.controls[n].position, c.finish) >>
         IN  << first >> \o between \o << last >>

-----------------------------------------------------------------------------
(* Inputs of the geometry builders *)

\* at most this many controls in the course handed to the builders
MaxCourseControls == 2

\* positions 30, 40 and 50 m from each other (closer than two radii) and
\* positions 150 m and more from each other
GeomPoints ==
    { Pos(0, 0), Pos(0, 300), Pos(400, 300),
      Pos(0, 1500), Pos(2000, 1500), Pos(2000, 0) }

\* start, controls, finish in running order
Waypoints(c) ==
    << c.start >> \o [i \in 1..Len(c.controls) |-> c.controls[i].position]
        \o << c.finish >>

\* the distance of the two positions is a whole number of decimetres and so
\* are the components of a step along their direction
ExactPair(p, q) ==
    LET dLat == q.lat.v - p.lat.v
        dLng == q.lng.v - p.lng.v
        d == Hypot(dLng, dLat)
    IN  /\ d * d = dLat * dLat + dLng * dLng
        /\ d # 0 => /\ (dLat * 15) % d = 0
                    /\ (dLng * 15) % d = 0

ExactLegs(c) ==
    \A i \in 1..(Len(Waypoints(c)) - 1) :
        ExactPair(Waypoints(c)[i], Waypoints(c)[i + 1])

GeomCourses ==
    { c \in { Course("G", "Course G", start, finish,
                     [i \in 1..Len(ps) |->
                         [id |-> "g" \o ToString(i), code |-> ToString(30 + i),
                          number |-> i, position |-> ps[i]]]) :
                start \in GeomPoints, finish \in GeomPoints,
                ps \in UNION { [1..k -> GeomPoints] :
                                k \in 0..MaxCourseControls } } :
        ExactLegs(c) }

-----------------------------------------------------------------------------
(* The geometry run: the course lines, then single edge points *)

CreateCoursePolylines ==
    /\ geomPc = "ready"
    /\ polylines' = createCoursePolylines(geomCourse)
    /\ geomPc' = "lines"
    /\ UNCHANGED << geomCourse, edge >>

GetCircleEdgePoint(from, center, radiusMeters) ==
    /\ geomPc = "lines"
    /\ ExactPair(from, center)
    /\ edge' = [from |-> from, center |-> center, radius |-> radiusMeters,
                point |-> getCircleEdgePoint(from, center, radiusMeters)]
    /\ geomPc' = "edge"
    /\ UNCHANGED << geomCourse, polylines >>

-----------------------------------------------------------------------------
(* courseRenderer: line width for a zoom level.  Widths are in thousandths *)
(* of a pixel, resolutions in millimetres per pixel; a number that is      *)
(* Infinity or -Infinity is [kind |-> "inf", v |-> 1 or -1].               *)

Inf(sign) == [kind |-> "inf", v |-> sign]

\* a < b on numbers that are not NaN
Less(a, b) ==
    IF a.kind = "inf" THEN a.v < 0 /\ ~(b.kind = "inf" /\ b.v < 0)
    ELSE IF b.kind = "inf" THEN b.v > 0
    ELSE a.v < b.v

MathMin(a, b) == IF Less(b, a) THEN b ELSE a

MathMax(a, b) == IF Less(a, b) THEN b ELSE a

RECURSIVE Pow2(_)
\* 2^n for a natural number n
Pow2(n) == IF n = 0 THEN 1 ELSE 2 * Pow2(n - 1)

\* 156543.04 * Math.cos(latitude * Math.PI / 180) for the latitudes 0, 51
\* (the default), 60 and 120 degrees
Resolution0(latitude) ==
    CASE latitude = 0 -> 156543040
      [] latitude = 51 -> 98515727
      [] latitude = 60 -> 78271520
      [] latitude = 120 -> -78271520

\* ... / Math.pow(2, zoom): Math.pow overflows to Infinity above 2^1023 and
\* underflows to 0 below 2^-1074
Resolution(zoom, latitude) ==
    LET r0 == Resolution0(latitude)
    IN  IF zoom > 1023 THEN (IF r0 < 0 THEN NegZero ELSE Num(0))
        ELSE IF zoom < -1074 THEN Inf(IF r0 < 0 THEN -1 ELSE 1)
        ELSE IF zoom >= 0 THEN Num(RoundDiv(r0, Pow2(zoom)))
        ELSE Num(r0 * Pow2(-zoom))

\* targetWidthMeters / resolution
PixelWidth(zoom, latitude) ==
    LET resolution == Resolution(zoom, latitude)
    IN  IF resolution.kind = "inf" THEN Num(0)
        ELSE IF resolution.kind = "negzero" THEN Inf(-1)
        ELSE IF resolution.v = 0 THEN Inf(1)
        ELSE Num(RoundDiv(5250 * 1000, resolution.v))

\* the clamp without its ceiling
calculateLineWidthNoCeiling(zoom, latitude) ==
    MathMax(Num(1000), PixelWidth(zoom, latitude))

\* the clamp falling back to 1 above the ceiling
calculateLineWidthFallsBack(zoom, latitude) ==
    IF Less(Num(10000), PixelWidth(zoom, latitude)) THEN Num(1000)
    ELSE MathMax(Num(1000), PixelWidth(zoom, latitude))

\* Math.max(1, Math.min(10, pixelWidth))
calculateLineWidth(zoom, latitude) ==
    MathMax(Num(1000), MathMin(Num(10000), PixelWidth(zoom, latitude)))

\* the largest zoom level of the inputs
MaxZoomLevel == 24

\* zoom levels: those of a map and beyond, and two finite zooms at which
\* Math.pow(2, zoom) underflows and overflows
ZoomLevels == ((-3)..MaxZoomLevel) \cup {-1075, 1024}

Latitudes == {0, 51, 60, 120}

CalculateLineWidth(zoom, latitude) ==
    /\ lineWidth' = [zoom |-> zoom, latitude |-> latitude,
                     width |-> calculateLineWidth(zoom, latitude)]
    /\ lineWidthBefore' = lineWidth

-----------------------------------------------------------------------------
(* courseRenderer: label placement *)

\* calculateDistance of courseRenderer, the planar distance of two coordinate
\* pairs in whole decimetres (rounded down)
calculateDistancePlanar(pos1, pos2) ==
    Hypot(pos2[1] - pos1[1], pos2[2] - pos1[2])

\* the arithmetic mean of the two angles, without the wraparound
averageAnglesNaive(angle1, angle2) ==
    ((angle1 + angle2) \div 2) % 36000

averageAngles(angle1, angle2) ==
    LET diff == ((angle2 - angle1 + 54000) % 36000) - 18000
    IN  (angle1 + RoundDiv(diff, 2) + 36000) % 36000

\* bearings in [0, 360), every ten degrees, in hundredths of a degree
Bearings == { 1000 * k : k \in 0..35 }

\* one call of averageAngles
AverageAngles(angle1, angle2) ==
    angleAverage' = [angle1 |-> angle1, angle2 |-> angle2,
                     average |-> averageAngles(angle1, angle2)]

\* controlNumber.toString().length
NumDigits(controlNumber) ==
    IF controlNumber < 10 THEN 1 ELSE IF controlNumber < 100 THEN 2 ELSE 3

\* circleRadius + margin + diagonalHalf
calculateLabelOffset(controlNumber) ==
    LET halfWidth == (600 * 6 * NumDigits(controlNumber)) \div 20
        halfHeight == 600 \div 2
    IN  375 + 80 + Hypot(halfWidth, halfHeight)

\* the preferred angle of findNonOverlappingPosition
PreferredAngle(currentPos, prevPos, nextPos) ==
    IF prevPos # NULL /\ nextPos # NULL
    THEN LET bearingFrom == calculateBearing(prevPos, currentPos)
             bearingTo == calculateBearing(currentPos, nextPos)
             turnAngle == (bearingTo - bearingFrom + 36000) % 36000
             avgBearing == averageAngles(bearingFrom, bearingTo)
         IN  IF turnAngle < 18000 THEN avgBearing - 9000 ELSE avgBearing + 9000
    ELSE IF prevPos # NULL THEN calculateBearing(prevPos, currentPos) + 9000
    ELSE IF nextPos # NULL THEN calculateBearing(currentPos, nextPos) + 9000
    ELSE 4500

\* anglesToTry with the perpendiculars before the opposite side
anglesToTryPerpendicularFirst(preferredAngle) ==
    << preferredAngle, preferredAngle + 9000, preferredAngle + 18000,
       preferredAngle - 9000, preferredAngle + 4500, preferredAngle - 4500,
       preferredAngle + 13500, preferredAngle - 13500 >>

anglesToTry(preferredAngle) ==
    << preferredAngle, preferredAngle + 18000, preferredAngle + 9000,
       preferredAngle - 9000, preferredAngle + 4500, preferredAngle - 4500,
       preferredAngle + 13500, preferredAngle - 13500 >>

\* hasOverlap after the three checks of one candidate
hasOverlap(labelPos, existingLabelPositions, finishPosition, startPosition) ==
    \/ \E i \in 1..Len(existingLabelPositions) :
           calculateDistancePlanar(labelPos, existingLabelPositions[i]) < 500
    \/ /\ finishPosition # NULL
       /\ calculateDistancePlanar(labelPos, transform(finishPosition))
              < 450 + 100
    \/ /\ startPosition # NULL
       /\ calculateDistancePlanar(labelPos, transform(startPosition))
              < 520 + 100

RECURSIVE TryAngles(_, _, _, _, _, _, _)
\* for (const angle of anglesToTry), then the fallback
TryAngles(angles, k, coords, offsetDistance, existingLabelPositions, finishPosition, startPosition) ==
    IF k > Len(angles) THEN Offset(coords, offsetDistance, angles[1])
    ELSE LET labelPos == Offset(coords, offsetDistance, angles[k])
         IN  IF ~hasOverlap(labelPos, existingLabelPositions, finishPosition,
                            startPosition)
             THEN labelPos
             ELSE TryAngles(angles, k + 1, coords, offsetDistance,
                            existingLabelPositions, finishPosition,
                            startPosition)

findNonOverlappingPosition(currentPos, prevPos, nextPos, existingLabelPositions, controlNumber, finishPosition, startPosition) ==
    TryAngles(anglesToTry(PreferredAngle(currentPos, prevPos, nextPos)), 1,
              transform(currentPos), calculateLabelOffset(controlNumber),
              existingLabelPositions, finishPosition, startPosition)

\* a labelPositions array kept between the calls
labelPositionsKept(left) ==
    left

\* const labelPositions = [] at the start of createNumberedControlsLayer
labelPositionsNew(left) ==
    << >>

RECURSIVE PlaceLabels(_, _, _)
\* course.controls.forEach from control index on: the labelPositions array
PlaceLabels(c, index, placed) ==
    IF index > Len(c.controls) THEN placed
    ELSE LET control == c.controls[index]
             prevControl == IF index > 1 THEN c.controls[index - 1].position
                            ELSE NULL
             nextControl == IF index < Len(c.controls)
                            THEN c.controls[index + 1].position
                            ELSE NULL
         IN  CHOOSE rest \in
                 { PlaceLabels(c, index + 1, pushed) :
                     pushed \in
                         { Append(placed, findNonOverlappingPosition(
                               control.position, prevControl, nextControl,
                               placed, control.number, c.finish, c.start)) } } :
                 TRUE

-----------------------------------------------------------------------------
(* Inputs and operations of the label placement *)

\* at most this many runs of createNumberedControlsLayer
MaxRuns == 2

\* every leg of the course runs along the meridian or the parallel
AxisLegs(c) ==
    \A i \in 1..(Len(Waypoints(c)) - 1) :
        \/ Waypoints(c)[i].lat = Waypoints(c)[i + 1].lat
        \/ Waypoints(c)[i].lng = Waypoints(c)[i + 1].lng

LabelCourses == { c \in GeomCourses : Len(c.controls) > 0 /\ AxisLegs(c) }

\* index > 0 ? course.controls[index - 1] : null, and its position
PrevPosition(c, index) ==
    IF index > 1 THEN c.controls[index - 1].position ELSE NULL

\* index < course.controls.length - 1 ? course.controls[index + 1] : null
NextPosition(c, index) ==
    IF index < Len(c.controls) THEN c.controls[index + 1].position ELSE NULL

\* the candidate angles relative to the preferred angle, in trial order
CandidateTurns == << 0, 18000, 9000, -9000, 4500, -4500, 13500, -13500 >>

\* the eight candidate positions of a label
Candidates(currentPos, prevPos, nextPos, controlNumber) ==
    [k \in 1..8 |->
        Offset(<< currentPos.lat.v, currentPos.lng.v >>,
               calculateLabelOffset(controlNumber),
               PreferredAngle(currentPos, prevPos, nextPos)
                   + CandidateTurns[k])]

\* already placed labels for the label of control index: on the first k
\* candidates, or exactly 50 m and just under 50 m from the first candidate
ExistingLabelInputs(c, index, controlNumber) ==
    LET cands == Candidates(c.controls[index].position, PrevPosition(c, index),
                            NextPosition(c, index), controlNumber)
    IN  { SubSeq(cands, 1, k) : k \in 0..8 }
            \cup { << << cands[1][1], cands[1][2] + 500 >> >>,
                   << << cands[1][1] + 499, cands[1][2] >> >> }

FindNonOverlappingPosition(index, existingLabelPositions, controlNumber) ==
    /\ geomPc = "labels"
    /\ label' = [currentPos |-> geomCourse.controls[index].position,
                 prevPos |-> PrevPosition(geomCourse, index),
                 nextPos |-> NextPosition(geomCourse, index),
                 existingLabelPositions |-> existingLabelPositions,
                 controlNumber |-> controlNumber,
                 finishPosition |-> geomCourse.finish,
                 startPosition |-> geomCourse.start,
                 position |-> findNonOverlappingPosition(
                     geomCourse.controls[index].position,
                     PrevPosition(geomCourse, index),
                     NextPosition(geomCourse, index),
                     existingLabelPositions, controlNumber,
                     geomCourse.finish, geomCourse.start)]
    /\ geomPc' = "called"
    /\ UNCHANGED << labelPositions, labelRuns, angleAverage >>

\* the record of the call findNonOverlappingPosition for the last control of
\* a run over the course, the labels before it being placed
LastCallOf(c, placed) ==
    LET index == Len(c.controls)
    IN  [currentPos |-> c.controls[index].position,
         prevPos |-> PrevPosition(c, index),
         nextPos |-> NextPosition(c, index),
         existingLabelPositions |-> SubSeq(placed, 1, Len(placed) - 1),
         controlNumber |-> c.controls[index].number,
         finishPosition |-> c.finish,
         startPosition |-> c.start,
         position |-> placed[Len(placed)]]

\* one call of createNumberedControlsLayer: the positions of its labels
CreateNumberedControlsLayer(zoom) ==
    /\ geomPc \in {"labels", "placed"}
    /\ Len(labelRuns) < MaxRuns
    /\ \E initial \in { labelPositionsNew(labelPositions) } :
       \E final \in { PlaceLabels(geomCourse, 1, initial) } :
           /\ labelPositions' = final
           /\ label' = LastCallOf(geomCourse, final)
           /\ labelRuns' = Append(labelRuns,
                  [zoom |-> zoom,
                   weight |-> calculateLineWidth(zoom, 51),
                   positions |-> SubSeq(final, Len(initial) + 1, Len(final))])
    /\ geomPc' = "placed"
    /\ UNCHANGED angleAverage

-----------------------------------------------------------------------------
(* MapPage, CourseLayer and ControlsLayer: what is drawn on the map.  A    *)
(* state update, the render it causes and the effects of that render are   *)
(* one step; a setTimeout callback is a step of its own.                   *)

\* the outcome of a call that threw
Thrown == [kind |-> "thrown"]

\* L.circle, L.polygon and L.polyline convert their coordinates with
\* L.latLng, which throws 'Invalid LatLng object' for a NaN
LatLngThrows(position) == IsNaN(position.lat) \/ IsNaN(position.lng)

VisitedColor == "#22c55e"

UnvisitedColor == "#9333ea"

\* createControlMarker: the circle, green if visited and purple otherwise,
\* or the throw of L.circle
createControlMarker(uniqueControl, zoom, visited) ==
    IF LatLngThrows(uniqueControl.position) THEN Thrown
    ELSE [kind |-> "circle", code |-> uniqueControl.code,
          center |-> transform(uniqueControl.position),
          radius |-> ControlRadius, weight |-> calculateLineWidth(zoom, 51),
          color |-> IF visited THEN VisitedColor ELSE UnvisitedColor]

\* a predicate (controlIds: string[]) => boolean as the set of the arrays
\* it is true for; the default parameter () => false
NeverVisited == {}

\* createControlsLayer: uniqueControls.forEach has no try of its own
createControlsLayer(controls, zoom, isVisited) ==
    LET markers == [i \in 1..Len(controls) |->
                       createControlMarker(controls[i], zoom,
                                           controls[i].controlIds \in isVisited)]
    IN  IF \E i \in 1..Len(controls) : markers[i] = Thrown THEN Thrown
        ELSE [kind |-> "layerGroup", layers |-> markers]

\* createCourseLayer: the polylines if requested, the start triangle aimed
\* at the first control, the finish circles
createCourseLayer(c, zoom, includePolylines) ==
    IF \/ includePolylines
          /\ \E i \in 1..Len(Waypoints(c)) : LatLngThrows(Waypoints(c)[i])
       \/ LatLngThrows(c.start)
       \/ Len(c.controls) > 0 /\ LatLngThrows(c.controls[1].position)
       \/ LatLngThrows(c.finish)
    THEN Thrown
    ELSE [kind |-> "layerGroup",
          polylines |-> IF includePolylines THEN createCoursePolylines(c)
                        ELSE << >>,
          start |-> createStartMarker(
                        c.start,
                        IF Len(c.controls) > 0 THEN c.controls[1].position
                        ELSE NULL).top,
          finish |-> transform(c.finish),
          weight |-> calculateLineWidth(zoom, 51)]

\* MapPage: courses.map(course => ({...course, visible: ...}))
visibleCourses(tab, cs) ==
    [i \in 1..Len(cs) |->
        [cs[i] EXCEPT !.visible = (tab = "all" \/ cs[i].id = tab)]]

\* MapPage: the courses prop of ControlsLayer
coursesForControls(tab, cs) ==
    IF tab = "all" THEN cs ELSE SelectSeq(cs, LAMBDA course : course.id = tab)

\* MapPage: the courses prop of CourseLayer
coursesForStartFinish(tab, cs) ==
    IF tab = "all" THEN [i \in 1..Len(cs) |-> [cs[i] EXCEPT !.visible = TRUE]]
    ELSE SelectSeq(visibleCourses(tab, cs), LAMBDA course : course.visible)

\* MapPage: the showPolylines prop of CourseLayer
showPolylines(tab) == tab # "all"

\* loadEvent: georef.type === 'kmz' or every corner within +-90 / +-180
isGeographic(eventMap) ==
    \/ eventMap.georef.type = "kmz"
    \/ /\ Abs(eventMap.georef.topLeftY) <= 90
       /\ Abs(eventMap.georef.topLeftX) <= 180
       /\ Abs(eventMap.bounds.north) <= 90
       /\ Abs(eventMap.bounds.south) <= 90
       /\ Abs(eventMap.bounds.east) <= 180
       /\ Abs(eventMap.bounds.west) <= 180

CourseWarning == "Course rendering is not supported"

ControlsWarning == "Control rendering is not supported"

CourseError == "Error rendering courses"

ControlsError == "Error rendering controls"

\* the CourseLayer effect without the check of useProjectedCoords
CourseLayerEffectUngated(mapSet, projected) ==
    IF ~mapSet THEN [timeout |-> FALSE, console |-> {}]
    ELSE [timeout |-> TRUE, console |-> {}]

\* the body of the CourseLayer effect: is a timeout set, what is logged
CourseLayerEffect(mapSet, projected) ==
    IF ~mapSet THEN [timeout |-> FALSE, console |-> {}]
    ELSE IF projected THEN [timeout |-> FALSE, console |-> {CourseWarning}]
    ELSE [timeout |-> TRUE, console |-> {}]

\* the body of the ControlsLayer effect
ControlsLayerEffect(mapSet, cs, projected) ==
    IF ~mapSet \/ Len(cs) = 0 THEN [timeout |-> FALSE, console |-> {}]
    ELSE IF projected THEN [timeout |-> FALSE, console |-> {ControlsWarning}]
    ELSE [timeout |-> TRUE, console |-> {}]

\* a dependency of both effects changed: their cleanups clear the timeouts
\* and remove every layer, then the effects run with the new values
Rerender(mapSet, cs, tab, projected) ==
    LET courseEffect == CourseLayerEffect(mapSet, projected)
        controlsEffect ==
            ControlsLayerEffect(mapSet, coursesForControls(tab, cs), projected)
    IN  /\ currentLayers' = << >>
        /\ layerRef' = NULL
        /\ courseTimeout' = courseEffect.timeout
        /\ controlsTimeout' = controlsEffect.timeout
        /\ console' = courseEffect.console \cup controlsEffect.console
        /\ computed' = [by |-> "none", entities |-> {}]

RECURSIVE AddCourseLayers(_, _, _, _)
\* courses.forEach inside the try of the CourseLayer callback: the layers
\* added before the first throw, the courses createCourseLayer was called for
AddCourseLayers(cs, layers, zoom, includePolylines) ==
    IF cs = << >> THEN [layers |-> layers, threw |-> FALSE, called |-> {}]
    ELSE IF Head(cs).visible /\ ~MapHas(layers, Head(cs).id)
    THEN LET layer == createCourseLayer(Head(cs), zoom, includePolylines)
             rest == AddCourseLayers(Tail(cs),
                                     MapSet(layers, Head(cs).id, layer),
                                     zoom, includePolylines)
         IN  IF layer = Thrown
             THEN [layers |-> layers, threw |-> TRUE,
                   called |-> {Head(cs).id}]
             ELSE [rest EXCEPT !.called = @ \cup {Head(cs).id}]
    ELSE AddCourseLayers(Tail(cs), layers, zoom, includePolylines)

\* currentLayers.forEach: remove the layers of courses no longer visible
RemoveInvisible(layers, cs) ==
    SelectSeq(layers,
              LAMBDA entry : \E i \in 1..Len(cs) :
                                 cs[i].id = entry.key /\ cs[i].visible)

-----------------------------------------------------------------------------
(* The events the map page loads *)

\* metres of a projected grid and degrees
Georefs ==
    { [georef |-> [type |-> "kmz", topLeftX |-> 0, topLeftY |-> 0],
       bounds |-> [north |-> 52, south |-> 51, east |-> 1, west |-> 0]],
      [georef |-> [type |-> "worldfile", topLeftX |-> 0, topLeftY |-> 52],
       bounds |-> [north |-> 52, south |-> 51, east |-> 1, west |-> 0]],
      [georef |-> [type |-> "worldfile", topLeftX |-> 430000,
                   topLeftY |-> 5700000],
       bounds |-> [north |-> 5700000, south |-> 5690000, east |-> 440000,
                   west |-> 430000]],
      [georef |-> [type |-> "worldfile", topLeftX |-> 100, topLeftY |-> 80],
       bounds |-> [north |-> 80, south |-> -20, east |-> 200, west |-> 100]] }

LayerCourseA ==
    Course("A", "Course A", Pos(0, 0), Pos(2000, 0),
           << Control("a1", "31", 1, 0, 1500),
              Control("a2", "32", 2, 2000, 1500) >>)

LayerCourseB ==
    Course("B", "Course B", Pos(0, 0), Pos(2000, 0),
           << Control("b1", "31", 1, 0, 1500) >>)

\* Course A with a NaN latitude in its second control
LayerCourseANaNControl ==
    [LayerCourseA EXCEPT !.controls[2].position.lat = NaN]

\* Course A with a NaN longitude in its start
LayerCourseANaNStart ==
    [LayerCourseA EXCEPT !.start.lng = NaN]

LayerCourseLists ==
    { << >>,
      << LayerCourseA, LayerCourseB >>,
      << LayerCourseANaNControl, LayerCourseB >>,
      << LayerCourseANaNStart, LayerCourseB >>,
      << LayerCourseB, LayerCourseANaNControl >> }

LayerEvents ==
    { [courses |-> cs, map |-> g] : cs \in LayerCourseLists, g \in Georefs }

\* the zoom levels map.fitBounds settles on, and those of later zoomend events
FitZooms == {14, 15}

LayerZooms == {14, 15, 16}

-----------------------------------------------------------------------------
(* The operations of the map page and the callbacks of the two layers *)

\* loadEvent: setCourses, setUseProjectedCoords
LoadEvent(event) ==
    /\ courses' = event.courses
    /\ useProjectedCoords' = ~isGeographic(event.map)
    /\ Rerender(map, event.courses, selectedTab, ~isGeographic(event.map))
    /\ UNCHANGED << map, zoomState, selectedTab >>

\* MapView hands the map to the page: setMap, then setZoom(map.getZoom())
SetMap(zoom) ==
    /\ ~map
    /\ map' = TRUE
    /\ zoomState' = zoom
    /\ Rerender(TRUE, courses, selectedTab, useProjectedCoords)
    /\ UNCHANGED << courses, useProjectedCoords, selectedTab >>

\* handleTabChange: the courses props and showPolylines change
HandleTabChange(tab) ==
    /\ tab # selectedTab
    /\ selectedTab' = tab
    /\ Rerender(map, courses, tab, useProjectedCoords)
    /\ UNCHANGED << courses, useProjectedCoords, map, zoomState >>

\* handleZoomEnd of both layers: the layers are restyled, setZoom(newZoom)
\* runs the effects again
HandleZoomEnd(newZoom) ==
    /\ map
    /\ newZoom # zoomState
    /\ zoomState' = newZoom
    /\ Rerender(map, courses, selectedTab, useProjectedCoords)
    /\ UNCHANGED << courses, useProjectedCoords, map, selectedTab >>

\* the setTimeout callback of CourseLayer
CourseTimeout ==
    /\ courseTimeout
    /\ LET cs == coursesForStartFinish(selectedTab, courses)
           added == AddCourseLayers(cs, RemoveInvisible(currentLayers, cs),
                                    zoomState, showPolylines(selectedTab))
       IN  /\ currentLayers' = added.layers
           /\ console' = IF added.threw THEN {CourseError} ELSE {}
           /\ computed' = [by |-> "CourseLayer", entities |-> added.called]
    /\ courseTimeout' = FALSE
    /\ UNCHANGED << courses, useProjectedCoords, map, zoomState, selectedTab,
                    controlsTimeout, layerRef >>

\* the setTimeout callback of ControlsLayer: createControlsLayer is called
\* with three arguments, its isControlVisited parameter takes the default
ControlsTimeout ==
    /\ controlsTimeout
    /\ LET controls == extractUniqueControls(
                           coursesForControls(selectedTab, courses))
           layer == createControlsLayer(controls, zoomState, NeverVisited)
       IN  /\ layerRef' = IF layer = Thrown THEN NULL ELSE layer
           /\ console' = IF layer = Thrown THEN {ControlsError} ELSE {}
           /\ computed' = [by |-> "ControlsLayer",
                           entities |-> { controls[i].code :
                                            i \in 1..Len(controls) }]
    /\ controlsTimeout' = FALSE
    /\ UNCHANGED << courses, useProjectedCoords, map, zoomState, selectedTab,
                    courseTimeout, currentLayers >>

-----------------------------------------------------------------------------
(* gpsTracker: the GPSTracker singleton, the browser's geolocation API and *)
(* the useGPSTracking hook of one mounted component                        *)

\* at most this many success callbacks queued by the browser
MaxPositionTasks == 2

\* the ids navigator.geolocation.watchPosition may return (0 is one of them)
WatchIds == {0, 1}

\* the position callbacks: the one of useGPSTracking, one that throws, one
\* that runs its own unsubscribe function when a position is delivered to it
GPSCallbacks == {"hook", "faulty", "once"}

\* the GeolocationPosition objects of the browser
GeolocationPositions ==
    { [coords |-> [latitude |-> Num(0), longitude |-> Num(0), accuracy |-> 10],
       timestamp |-> 1],
      [coords |-> [latitude |-> Num(6), longitude |-> Num(8), accuracy |-> 25],
       timestamp |-> 2] }

\* handleSuccess: the GPSPosition made of a GeolocationPosition
ToGPSPosition(geoPosition) ==
    [position |-> [lat |-> geoPosition.coords.latitude,
                   lng |-> geoPosition.coords.longitude],
     accuracy |-> geoPosition.coords.accuracy,
     timestamp |-> geoPosition.timestamp]

\* the GPSError of start on a browser without geolocation
UnsupportedError ==
    [code |-> -1, message |-> "Geolocation is not supported by this browser"]

\* this.callbacks.delete(callback)
SetDelete(set, callback) == SelectSeq(set, LAMBDA x : x # callback)

\* this.callbacks.add(callback)
SetAdd(set, callback) ==
    IF Includes(set, callback) THEN set ELSE Append(set, callback)

\* isTracking(): this.watchId !== null
isTracking == watchId # NULL

\* getLastPosition()
getLastPosition == lastPosition

\* start calls notifyError: no watch yet and no navigator.geolocation
StartNotifiesError == watchId = NULL /\ ~geolocation

\* start with a truthiness test of the watch id in place of !== null
startTruthy(id) ==
    /\ IF watchId # NULL /\ watchId # Num(0)
       THEN UNCHANGED << watchId, watchIDs, watchCalls >>
       ELSE IF ~geolocation
       THEN UNCHANGED << watchId, watchIDs, watchCalls >>
       ELSE /\ id \notin watchIDs
            /\ watchId' = Num(id)
            /\ watchIDs' = watchIDs \cup {id}
            /\ watchCalls' = watchCalls + 1
    /\ invoked' = << >>
    /\ UNCHANGED << geolocation, positionTasks, callbacks, errorCallbacks,
                    lastPosition, unsubscribed >>

\* start that registers nothing with the browser but records a watch id
startUnsupportedTracks(id) ==
    /\ IF watchId # NULL
       THEN UNCHANGED << watchId, watchIDs, watchCalls >>
       ELSE IF ~geolocation
       THEN /\ watchId' = Num(id)
            /\ UNCHANGED << watchIDs, watchCalls >>
       ELSE /\ id \notin watchIDs
            /\ watchId' = Num(id)
            /\ watchIDs' = watchIDs \cup {id}
            /\ watchCalls' = watchCalls + 1
    /\ invoked' = << >>
    /\ UNCHANGED << geolocation, positionTasks, callbacks, errorCallbacks,
                    lastPosition, unsubscribed >>

\* GPSTracker.start, the browser returning the watch id
start(id) ==
    /\ IF watchId # NULL
       THEN UNCHANGED << watchId, watchIDs, watchCalls >>
       ELSE IF ~geolocation
       THEN UNCHANGED << watchId, watchIDs, watchCalls >>
       ELSE /\ id \notin watchIDs
            /\ watchId' = Num(id)
            /\ watchIDs' = watchIDs \cup {id}
            /\ watchCalls' = watchCalls + 1
    /\ invoked' = << >>
    /\ UNCHANGED << geolocation, positionTasks, callbacks, errorCallbacks,
                    lastPosition, unsubscribed >>

\* GPSTracker.stop: clearWatch leaves the callbacks already queued
stop ==
    /\ IF watchId # NULL
       THEN /\ watchIDs' = watchIDs \ {watchId.v}
            /\ watchId' = NULL
            /\ lastPosition' = NULL
       ELSE UNCHANGED << watchIDs, watchId, lastPosition >>
    /\ watchCalls' = 0
    /\ invoked' = << >>
    /\ UNCHANGED << geolocation, positionTasks, callbacks, errorCallbacks,
                    unsubscribed >>

RECURSIVE notifyCallbacksUnguarded(_, _, _)
\* notifyCallbacks without the try around callback(position)
notifyCallbacksUnguarded(todo, position, done) ==
    IF todo = << >> THEN done
    ELSE IF Head(todo) = "faulty"
    THEN [done EXCEPT !.invoked = Append(@, [callback |-> Head(todo),
                                             position |-> position])]
    ELSE notifyCallbacksUnguarded(
             Tail(todo), position,
             [invoked |-> Append(done.invoked, [callback |-> Head(todo),
                                                position |-> position]),
              callbacks |-> IF Head(todo) = "once"
                            THEN SetDelete(done.callbacks, "once")
                            ELSE done.callbacks,
              unsubscribed |-> IF Head(todo) = "once"
                               THEN done.unsubscribed \cup {"once"}
                               ELSE done.unsubscribed])

RECURSIVE notifyCallbacks(_, _, _)
\* this.callbacks.forEach(callback => { try { callback(position) } catch })
\* over the callbacks not yet visited: the invocations made, the set left
notifyCallbacks(todo, position, done) ==
    IF todo = << >> THEN done
    ELSE notifyCallbacks(
             Tail(todo), position,
             [invoked |-> Append(done.invoked, [callback |-> Head(todo),
                                                position |-> position]),
              callbacks |-> IF Head(todo) = "once"
                            THEN SetDelete(done.callbacks, "once")
                            ELSE done.callbacks,
              unsubscribed |-> IF Head(todo) = "once"
                               THEN done.unsubscribed \cup {"once"}
                               ELSE done.unsubscribed])

\* handleSuccess
handleSuccess(geoPosition) ==
    LET converted == ToGPSPosition(geoPosition)
        notified == notifyCallbacks(callbacks, converted,
                                    [invoked |-> << >>, callbacks |-> callbacks,
                                     unsubscribed |-> unsubscribed])
    IN  /\ lastPosition' = converted
        /\ invoked' = notified.invoked
        /\ callbacks' = notified.callbacks
        /\ unsubscribed' = notified.unsubscribed
        /\ gpsOp' = [op |-> "handleSuccess", before |-> watchId,
                     subscribers |-> callbacks]
        /\ UNCHANGED << geolocation, watchIDs, watchId, errorCallbacks,
                        watchCalls >>

\* the useGPSTracking component is mounted: its effect has subscribed
HookMounted == Includes(errorCallbacks, "hook")

-----------------------------------------------------------------------------
(* The operations on the tracker and the hook *)

\* the browser queues a success callback for a registered watch
QueuePosition(geoPosition) ==
    /\ watchIDs # {}
    /\ Len(positionTasks) < MaxPositionTasks
    /\ positionTasks' = Append(positionTasks, geoPosition)
    /\ UNCHANGED << geolocation, watchIDs, watchId, callbacks, errorCallbacks,
                    lastPosition, watchCalls, gpsOp, invoked, unsubscribed,
                    hookIsTracking, hookPosition, hookError >>

\* the browser runs the oldest queued success callback
DeliverPosition ==
    /\ positionTasks # << >>
    /\ positionTasks' = Tail(positionTasks)
    /\ handleSuccess(Head(positionTasks))
    /\ IF Includes(callbacks, "hook")
       THEN /\ hookPosition' = ToGPSPosition(Head(positionTasks))
            /\ hookError' = NULL
       ELSE UNCHANGED << hookPosition, hookError >>
    /\ UNCHANGED hookIsTracking

\* another user of the singleton calls gpsTracker.start()
GpsStart(id) ==
    /\ start(id)
    /\ gpsOp' = [op |-> "start", before |-> watchId]
    /\ hookError' = IF StartNotifiesError /\ HookMounted THEN UnsupportedError
                    ELSE hookError
    /\ UNCHANGED << hookIsTracking, hookPosition >>

\* another user of the singleton calls gpsTracker.stop()
GpsStop ==
    /\ stop
    /\ gpsOp' = [op |-> "stop", before |-> watchId]
    /\ UNCHANGED << hookIsTracking, hookPosition, hookError >>

\* startTracking: setError(null), gpsTracker.start(), setIsTracking(true)
startTracking(id) ==
    /\ HookMounted
    /\ start(id)
    /\ hookError' = IF StartNotifiesError THEN UnsupportedError ELSE NULL
    /\ hookIsTracking' = TRUE
    /\ UNCHANGED hookPosition

\* stopTracking
stopTracking ==
    /\ HookMounted
    /\ stop
    /\ hookIsTracking' = FALSE
    /\ hookPosition' = NULL
    /\ hookError' = NULL

\* toggleTracking
toggleTracking(id) ==
    IF hookIsTracking THEN stopTracking ELSE startTracking(id)

\* the component mounts: fresh state, then the effect subscribes both of its
\* callbacks; the position callback is called at once with a held position
HookMount ==
    /\ ~HookMounted
    /\ callbacks' = SetAdd(callbacks, "hook")
    /\ errorCallbacks' = SetAdd(errorCallbacks, "hook")
    /\ unsubscribed' = unsubscribed \ {"hook"}
    /\ invoked' = IF lastPosition # NULL
                  THEN << [callback |-> "hook", position |-> lastPosition] >>
                  ELSE << >>
    /\ hookIsTracking' = FALSE
    /\ hookPosition' = lastPosition
    /\ hookError' = NULL
    /\ gpsOp' = [op |-> "subscribe", before |-> watchId]
    /\ UNCHANGED << geolocation, watchIDs, positionTasks, watchId,
                    lastPosition, watchCalls >>

\* the component unmounts: the cleanup runs both unsubscribe functions
HookUnmount ==
    /\ HookMounted
    /\ callbacks' = SetDelete(callbacks, "hook")
    /\ errorCallbacks' = SetDelete(errorCallbacks, "hook")
    /\ unsubscribed' = unsubscribed \cup {"hook"}
    /\ invoked' = << >>
    /\ gpsOp' = [op |-> "unsubscribe", before |-> watchId]
    /\ UNCHANGED << geolocation, watchIDs, positionTasks, watchId,
                    lastPosition, watchCalls, hookIsTracking, hookPosition,
                    hookError >>

\* subscribe(callback) by another subscriber
Subscribe(callback) ==
    /\ ~Includes(callbacks, callback)
    /\ callbacks' = SetAdd(callbacks, callback)
    /\ unsubscribed' = unsubscribed \ {callback}
    /\ invoked' = IF lastPosition # NULL
                  THEN << [callback |-> callback, position |-> lastPosition] >>
                  ELSE << >>
    /\ gpsOp' = [op |-> "subscribe", before |-> watchId]
    /\ UNCHANGED << geolocation, watchIDs, positionTasks, watchId,
                    errorCallbacks, lastPosition, watchCalls, hookIsTracking,
                    hookPosition, hookError >>

\* the unsubscribe function returned to another subscriber
Unsubscribe(callback) ==
    /\ Includes(callbacks, callback)
    /\ callbacks' = SetDelete(callbacks, callback)
    /\ unsubscribed' = unsubscribed \cup {callback}
    /\ invoked' = << >>
    /\ gpsOp' = [op |-> "unsubscribe", before |-> watchId]
    /\ UNCHANGED << geolocation, watchIDs, positionTasks, watchId,
                    errorCallbacks, lastPosition, watchCalls, hookIsTracking,
                    hookPosition, hookError >>

GeomIdle ==
    /\ geomCourse = NULL
    /\ geomPc = "idle"
    /\ polylines = << >>
    /\ edge = NULL

ScaleIdle ==
    /\ lineWidth = NULL
    /\ lineWidthBefore = NULL

LabelsIdle ==
    /\ label = NULL
    /\ labelPositions = << >>
    /\ labelRuns = << >>
    /\ angleAverage = NULL

LayersIdle ==
    /\ useProjectedCoords = FALSE
    /\ map = FALSE
    /\ zoomState = 15
    /\ courseTimeout = FALSE
    /\ controlsTimeout = FALSE
    /\ currentLayers = << >>
    /\ layerRef = NULL
    /\ console = {}
    /\ computed = [by |-> "none", entities |-> {}]

GpsIdle ==
    /\ geolocation = TRUE
    /\ watchIDs = {}
    /\ positionTasks = << >>
    /\ watchId = NULL
    /\ callbacks = << >>
    /\ errorCallbacks = << >>
    /\ lastPosition = NULL
    /\ watchCalls = 0
    /\ gpsOp = [op |-> "init", before |-> NULL]
    /\ invoked = << >>
    /\ unsubscribed = {}
    /\ hookIsTracking = FALSE
    /\ hookPosition = NULL
    /\ hookError = NULL

Init ==
    /\ visitedControls = {}
    /\ visitDistanceThreshold = 10
    /\ isTrackingEnabled = TRUE
    /\ gpsPosition = NULL
    /\ selectedTab = "all"
    /\ arrivedWhileDisabled = FALSE
    /\ lastOp = [op |-> "init", arg |-> NULL, marks |-> << >>]
    /\ prev = [visitedControls |-> {}, visitDistanceThreshold |-> 10,
               isTrackingEnabled |-> TRUE, gpsPosition |-> NULL,
               selectedTab |-> "all"]
    /\ courses = EventCourses
    /\ pc = "idle"
    /\ uniqueControls = << >>
    /\ uniqueStarts = << >>
    /\ uniqueFinishes = << >>
    /\ GeomIdle
    /\ ScaleIdle
    /\ LabelsIdle
    /\ LayersIdle
    /\ GpsIdle

Next ==
    \/ /\ \E p \in GPSSamples \cup {NULL} : PositionUpdate(p)
       /\ UNCHANGED << courses, dedupVars, geomVars, scaleVars,
                       labelVars, layerVars, gpsVars >>
    \/ /\ \E distance \in Thresholds : setVisitDistanceThreshold(distance)
       /\ UNCHANGED << courses, dedupVars, geomVars, scaleVars,
                       labelVars, layerVars, gpsVars >>
    \/ /\ \E enabled \in BOOLEAN : setTrackingEnabled(enabled)
       /\ UNCHANGED << courses, dedupVars, geomVars, scaleVars,
                       labelVars, layerVars, gpsVars >>
    \/ /\ \E tab \in {"all"} \cup CourseIds(courses) : SelectTab(tab)
       /\ UNCHANGED << courses, dedupVars, geomVars, scaleVars,
                       labelVars, layerVars, gpsVars >>
    \/ /\ \E controlId \in ControlIds(courses) : MarkControlAsVisited(controlId)
       /\ UNCHANGED << courses, dedupVars, geomVars, scaleVars,
                       labelVars, layerVars, gpsVars >>
    \/ /\ resetVisitedControls
       /\ UNCHANGED << courses, dedupVars, geomVars, scaleVars,
                       labelVars, layerVars, gpsVars >>

Spec == Init /\ [][Next]_vars

InitDedup ==
    /\ visitedControls = {}
    /\ visitDistanceThreshold = 10
    /\ isTrackingEnabled = TRUE
    /\ gpsPosition = NULL
    /\ selectedTab = "all"
    /\ arrivedWhileDisabled = FALSE
    /\ lastOp = [op |-> "init", arg |-> NULL, marks |-> << >>]
    /\ prev = [visitedControls |-> {}, visitDistanceThreshold |-> 10,
               isTrackingEnabled |-> TRUE, gpsPosition |-> NULL,
               selectedTab |-> "all"]
    /\ courses \in ControlInputs \cup StartFinishInputs
    /\ pc = "ready"
    /\ uniqueControls = << >>
    /\ uniqueStarts = << >>
    /\ uniqueFinishes = << >>
    /\ GeomIdle
    /\ ScaleIdle
    /\ LabelsIdle
    /\ LayersIdle
    /\ GpsIdle

NextDedup ==
    \/ ExtractUniqueControls /\ UNCHANGED << courses, trackerVars, geomVars, scaleVars,
                       labelVars, layerVars, gpsVars >>
    \/ ExtractUniqueStarts /\ UNCHANGED << courses, trackerVars, geomVars, scaleVars,
                       labelVars, layerVars, gpsVars >>
    \/ ExtractUniqueFinishes /\ UNCHANGED << courses, trackerVars, geomVars, scaleVars,
                       labelVars, layerVars, gpsVars >>

SpecDedup == InitDedup /\ [][NextDedup]_vars

InitGeom ==
    /\ visitedControls = {}
    /\ visitDistanceThreshold = 10
    /\ isTrackingEnabled = TRUE
    /\ gpsPosition = NULL
    /\ selectedTab = "all"
    /\ arrivedWhileDisabled = FALSE
    /\ lastOp = [op |-> "init", arg |-> NULL, marks |-> << >>]
    /\ prev = [visitedControls |-> {}, visitDistanceThreshold |-> 10,
               isTrackingEnabled |-> TRUE, gpsPosition |-> NULL,
               selectedTab |-> "all"]
    /\ geomCourse \in GeomCourses
    /\ courses = << geomCourse >>
    /\ pc = "idle"
    /\ uniqueControls = << >>
    /\ uniqueStarts = << >>
    /\ uniqueFinishes = << >>
    /\ geomPc = "ready"
    /\ polylines = << >>
    /\ edge = NULL
    /\ ScaleIdle
    /\ LabelsIdle
    /\ LayersIdle
    /\ GpsIdle

NextGeom ==
    \/ /\ CreateCoursePolylines
       /\ UNCHANGED << courses, trackerVars, dedupVars, scaleVars,
                       labelVars, layerVars, gpsVars >>
    \/ /\ \E from \in Range(Waypoints(geomCourse)),
             center \in Range(Waypoints(geomCourse)),
             radiusMeters \in {ControlRadius, FinishOuterRadius} :
               GetCircleEdgePoint(from, center, radiusMeters)
       /\ UNCHANGED << courses, trackerVars, dedupVars, scaleVars,
                       labelVars, layerVars, gpsVars >>

SpecGeom == InitGeom /\ [][NextGeom]_vars

InitScale ==
    /\ visitedControls = {}
    /\ visitDistanceThreshold = 10
    /\ isTrackingEnabled = TRUE
    /\ gpsPosition = NULL
    /\ selectedTab = "all"
    /\ arrivedWhileDisabled = FALSE
    /\ lastOp = [op |-> "init", arg |-> NULL, marks |-> << >>]
    /\ prev = [visitedControls |-> {}, visitDistanceThreshold |-> 10,
               isTrackingEnabled |-> TRUE, gpsPosition |-> NULL,
               selectedTab |-> "all"]
    /\ courses = << >>
    /\ pc = "idle"
    /\ uniqueControls = << >>
    /\ uniqueStarts = << >>
    /\ uniqueFinishes = << >>
    /\ GeomIdle
    /\ ScaleIdle
    /\ LabelsIdle
    /\ LayersIdle
    /\ GpsIdle

NextScale ==
    /\ \E zoom \in ZoomLevels, latitude \in Latitudes :
           CalculateLineWidth(zoom, latitude)
    /\ UNCHANGED << courses, trackerVars, dedupVars, geomVars, labelVars,
                    layerVars, gpsVars >>

SpecScale == InitScale /\ [][NextScale]_vars

InitLabels ==
    /\ visitedControls = {}
    /\ visitDistanceThreshold = 10
    /\ isTrackingEnabled = TRUE
    /\ gpsPosition = NULL
    /\ selectedTab = "all"
    /\ arrivedWhileDisabled = FALSE
    /\ lastOp = [op |-> "init", arg |-> NULL, marks |-> << >>]
    /\ prev = [visitedControls |-> {}, visitDistanceThreshold |-> 10,
               isTrackingEnabled |-> TRUE, gpsPosition |-> NULL,
               selectedTab |-> "all"]
    /\ geomCourse \in LabelCourses
    /\ courses = << geomCourse >>
    /\ pc = "idle"
    /\ uniqueControls = << >>
    /\ uniqueStarts = << >>
    /\ uniqueFinishes = << >>
    /\ geomPc = "labels"
    /\ polylines = << >>
    /\ edge = NULL
    /\ ScaleIdle
    /\ LabelsIdle
    /\ LayersIdle
    /\ GpsIdle

NextLabels ==
    \/ /\ geomPc = "labels"
       /\ \E index \in 1..Len(geomCourse.controls), controlNumber \in {1, 10} :
              \E existingLabelPositions \in
                     ExistingLabelInputs(geomCourse, index, controlNumber) :
                  FindNonOverlappingPosition(index, existingLabelPositions,
                                             controlNumber)
       /\ UNCHANGED << courses, trackerVars, dedupVars, scaleVars, layerVars, gpsVars,
                       geomCourse, polylines, edge >>
    \/ /\ \E zoom \in {15, 16} : CreateNumberedControlsLayer(zoom)
       /\ UNCHANGED << courses, trackerVars, dedupVars, scaleVars, layerVars, gpsVars,
                       geomCourse, polylines, edge >>

SpecLabels == InitLabels /\ [][NextLabels]_vars

InitAngles ==
    /\ visitedControls = {}
    /\ visitDistanceThreshold = 10
    /\ isTrackingEnabled = TRUE
    /\ gpsPosition = NULL
    /\ selectedTab = "all"
    /\ arrivedWhileDisabled = FALSE
    /\ lastOp = [op |-> "init", arg |-> NULL, marks |-> << >>]
    /\ prev = [visitedControls |-> {}, visitDistanceThreshold |-> 10,
               isTrackingEnabled |-> TRUE, gpsPosition |-> NULL,
               selectedTab |-> "all"]
    /\ courses = << >>
    /\ pc = "idle"
    /\ uniqueControls = << >>
    /\ uniqueStarts = << >>
    /\ uniqueFinishes = << >>
    /\ GeomIdle
    /\ ScaleIdle
    /\ LabelsIdle
    /\ LayersIdle
    /\ GpsIdle

NextAngles ==
    /\ \E angle1 \in Bearings, angle2 \in Bearings :
           AverageAngles(angle1, angle2)
    /\ UNCHANGED << courses, trackerVars, dedupVars, geomVars, scaleVars,
                    label, labelPositions, labelRuns, layerVars, gpsVars >>

SpecAngles == InitAngles /\ [][NextAngles]_vars

InitLayers ==
    /\ visitedControls = {}
    /\ visitDistanceThreshold = 10
    /\ isTrackingEnabled = TRUE
    /\ gpsPosition = NULL
    /\ selectedTab = "all"
    /\ arrivedWhileDisabled = FALSE
    /\ lastOp = [op |-> "init", arg |-> NULL, marks |-> << >>]
    /\ prev = [visitedControls |-> {}, visitDistanceThreshold |-> 10,
               isTrackingEnabled |-> TRUE, gpsPosition |-> NULL,
               selectedTab |-> "all"]
    /\ courses = << >>
    /\ pc = "idle"
    /\ uniqueControls = << >>
    /\ uniqueStarts = << >>
    /\ uniqueFinishes = << >>
    /\ GeomIdle
    /\ ScaleIdle
    /\ LabelsIdle
    /\ LayersIdle
    /\ GpsIdle

NextLayers ==
    \/ /\ \E event \in LayerEvents : LoadEvent(event)
       /\ UNCHANGED << visitedControls, visitDistanceThreshold,
                       isTrackingEnabled, gpsPosition, arrivedWhileDisabled,
                       lastOp, prev, dedupVars, geomVars, scaleVars, labelVars,
                       gpsVars >>
    \/ /\ \E zoom \in FitZooms : SetMap(zoom)
       /\ UNCHANGED << visitedControls, visitDistanceThreshold,
                       isTrackingEnabled, gpsPosition, arrivedWhileDisabled,
                       lastOp, prev, dedupVars, geomVars, scaleVars, labelVars,
                       gpsVars >>
    \/ /\ \E tab \in {"all", "A", "B"} : HandleTabChange(tab)
       /\ UNCHANGED << visitedControls, visitDistanceThreshold,
                       isTrackingEnabled, gpsPosition, arrivedWhileDisabled,
                       lastOp, prev, dedupVars, geomVars, scaleVars, labelVars,
                       gpsVars >>
    \/ /\ \E newZoom \in LayerZooms : HandleZoomEnd(newZoom)
       /\ UNCHANGED << visitedControls, visitDistanceThreshold,
                       isTrackingEnabled, gpsPosition, arrivedWhileDisabled,
                       lastOp, prev, dedupVars, geomVars, scaleVars, labelVars,
                       gpsVars >>
    \/ /\ CourseTimeout
       /\ UNCHANGED << visitedControls, visitDistanceThreshold,
                       isTrackingEnabled, gpsPosition, arrivedWhileDisabled,
                       lastOp, prev, dedupVars, geomVars, scaleVars, labelVars,
                       gpsVars >>
    \/ /\ ControlsTimeout
       /\ UNCHANGED << visitedControls, visitDistanceThreshold,
                       isTrackingEnabled, gpsPosition, arrivedWhileDisabled,
                       lastOp, prev, dedupVars, geomVars, scaleVars, labelVars,
                       gpsVars >>

SpecLayers == InitLayers /\ [][NextLayers]_vars

\* the map page while the visit tracking store changes
NextVisited ==
    \/ NextLayers
    \/ /\ \E controlId \in ControlIds(courses) : MarkControlAsVisited(controlId)
       /\ UNCHANGED << courses, dedupVars, geomVars, scaleVars, labelVars,
                       layerVars, gpsVars >>
    \/ /\ resetVisitedControls
       /\ UNCHANGED << courses, dedupVars, geomVars, scaleVars, labelVars,
                       layerVars, gpsVars >>

SpecVisited == InitLayers /\ [][NextVisited]_vars

InitGps ==
    /\ visitedControls = {}
    /\ visitDistanceThreshold = 10
    /\ isTrackingEnabled = TRUE
    /\ gpsPosition = NULL
    /\ selectedTab = "all"
    /\ arrivedWhileDisabled = FALSE
    /\ lastOp = [op |-> "init", arg |-> NULL, marks |-> << >>]
    /\ prev = [visitedControls |-> {}, visitDistanceThreshold |-> 10,
               isTrackingEnabled |-> TRUE, gpsPosition |-> NULL,
               selectedTab |-> "all"]
    /\ courses = << >>
    /\ pc = "idle"
    /\ uniqueControls = << >>
    /\ uniqueStarts = << >>
    /\ uniqueFinishes = << >>
    /\ GeomIdle
    /\ ScaleIdle
    /\ LabelsIdle
    /\ LayersIdle
    /\ geolocation \in BOOLEAN
    /\ watchIDs = {}
    /\ positionTasks = << >>
    /\ watchId = NULL
    /\ callbacks = << >>
    /\ errorCallbacks = << >>
    /\ lastPosition = NULL
    /\ watchCalls = 0
    /\ gpsOp = [op |-> "init", before |-> NULL]
    /\ invoked = << >>
    /\ unsubscribed = {}
    /\ hookIsTracking = FALSE
    /\ hookPosition = NULL
    /\ hookError = NULL

NextGps ==
    \/ /\ \E geoPosition \in GeolocationPositions : QueuePosition(geoPosition)
       /\ UNCHANGED << courses, trackerVars, dedupVars, geomVars, scaleVars,
                       labelVars, layerVars >>
    \/ /\ DeliverPosition
       /\ UNCHANGED << courses, trackerVars, dedupVars, geomVars, scaleVars,
                       labelVars, layerVars >>
    \/ /\ \E id \in WatchIds : GpsStart(id)
       /\ UNCHANGED << courses, trackerVars, dedupVars, geomVars, scaleVars,
                       labelVars, layerVars >>
    \/ /\ GpsStop
       /\ UNCHANGED << courses, trackerVars, dedupVars, geomVars, scaleVars,
                       labelVars, layerVars >>
    \/ /\ \E id \in WatchIds : startTracking(id)
       /\ gpsOp' = [op |-> "startTracking", before |-> watchId]
       /\ UNCHANGED << courses, trackerVars, dedupVars, geomVars, scaleVars,
                       labelVars, layerVars >>
    \/ /\ stopTracking
       /\ gpsOp' = [op |-> "stopTracking", before |-> watchId]
       /\ UNCHANGED << courses, trackerVars, dedupVars, geomVars, scaleVars,
                       labelVars, layerVars >>
    \/ /\ HookMounted
       /\ \E id \in WatchIds : toggleTracking(id)
       /\ gpsOp' = [op |-> "toggleTracking", before |-> watchId]
       /\ UNCHANGED << courses, trackerVars, dedupVars, geomVars, scaleVars,
                       labelVars, layerVars >>
    \/ /\ HookMount
       /\ UNCHANGED << courses, trackerVars, dedupVars, geomVars, scaleVars,
                       labelVars, layerVars >>
    \/ /\ HookUnmount
       /\ UNCHANGED << courses, trackerVars, dedupVars, geomVars, scaleVars,
                       labelVars, layerVars >>
    \/ /\ \E callback \in GPSCallbacks \ {"hook"} : Subscribe(callback)
       /\ UNCHANGED << courses, trackerVars, dedupVars, geomVars, scaleVars,
                       labelVars, layerVars >>
    \/ /\ \E callback \in GPSCallbacks \ {"hook"} : Unsubscribe(callback)
       /\ UNCHANGED << courses, trackerVars, dedupVars, geomVars, scaleVars,
                       labelVars, layerVars >>

SpecGps == InitGps /\ [][NextGps]_vars

-----------------------------------------------------------------------------
(* Visit tracker: properties *)

Sample(lat, lng) == [position |-> Pos(lat, lng)]

\* the ids of the controls of the visible courses within the threshold of a
\* position, stated on the course data and not on the loop of the effect
InRangeIds(cs, visible, position, threshold) ==
    { cs[i].controls[j].id :
        << i, j >> \in { << i, j >> \in (1..Len(cs)) \X (1..4) :
            /\ j <= Len(cs[i].controls)
            /\ cs[i].id \in visible
            /\ ~IsNaN(calculateDistance(position, cs[i].controls[j].position))
            /\ calculateDistance(position, cs[i].controls[j].position).v
                   <= threshold } }

\* 90 and 180 degrees in grid units
QuarterTurn == FullTurn \div 4

HalfTurn == FullTurn \div 2

\* NaN or out-of-range latitude / longitude
InvalidPosition(pos) ==
    \/ IsNaN(pos.lat) \/ IsNaN(pos.lng)
    \/ Abs(pos.lat.v) > QuarterTurn
    \/ Abs(pos.lng.v) > HalfTurn

\* C1: visited membership is monotonic: every step that is not
\* resetVisitedControls keeps every visited control id visited.
C1_VisitedMonotonic ==
    [][lastOp'.op # "resetVisitedControls"
         => visitedControls \subseteq visitedControls']_vars

\* C1 witness: a control visited earlier is still visited after a position
\* 5 km away was processed with tracking enabled.
C1_Witness ==
    /\ lastOp.op = "position"
    /\ gpsPosition = Sample(0, 5000)
    /\ isTrackingEnabled
    /\ "a1" \in prev.visitedControls
    /\ "a1" \in visitedControls

\* C2 (as claimed): a position update with tracking disabled changes
\* nothing, and a position that arrived while tracking was disabled never
\* causes a control to be added, also not when a later setTrackingEnabled,
\* setVisitDistanceThreshold or tab change re-evaluates it.
C2_AsClaimed ==
    [][/\ (lastOp'.op = "position" /\ ~isTrackingEnabled
              => visitedControls' = visitedControls)
       /\ ((lastOp'.op \in {"setTrackingEnabled", "setVisitDistanceThreshold",
                             "selectTab"}
             /\ arrivedWhileDisabled)
              => visitedControls' = visitedControls)]_vars

\* C2 (amended): a position update with tracking disabled changes nothing;
\* while tracking stays disabled the hook adds nothing; the held position is
\* evaluated when tracking is enabled again, which adds the visible controls
\* within the threshold of it.
C2_DisabledIgnoresPositions ==
    [][/\ (lastOp'.op = "position" /\ ~isTrackingEnabled
              => visitedControls' = visitedControls)
       /\ ((~isTrackingEnabled'
             /\ lastOp'.op \notin {"markControlAsVisited",
                                   "resetVisitedControls"})
              => visitedControls' = visitedControls)
       /\ ((lastOp'.op = "setTrackingEnabled"
             /\ ~isTrackingEnabled /\ isTrackingEnabled'
             /\ gpsPosition # NULL)
              => visitedControls' = visitedControls \cup
                     InRangeIds(courses, visibleCourseIds(selectedTab, courses),
                                gpsPosition.position, visitDistanceThreshold))]_vars

\* C2 witness: a position on control 31 arrived with tracking disabled and
\* the control was not marked.
C2_Witness ==
    /\ lastOp.op = "position"
    /\ ~isTrackingEnabled
    /\ gpsPosition = Sample(0, 0)
    /\ selectedTab = "all"
    /\ "a1" \notin visitedControls
    /\ visitedControls = prev.visitedControls

\* C3: a position processed with tracking enabled adds exactly the not yet
\* visited controls of the visible courses whose Haversine distance to it is
\* at most the threshold, and removes nothing.
C3_PositionAddsExactlyInRange ==
    [][lastOp'.op = "position" /\ isTrackingEnabled /\ gpsPosition' # NULL
         => visitedControls' = visitedControls \cup
                InRangeIds(courses, visibleCourseIds(selectedTab, courses),
                           gpsPosition'.position, visitDistanceThreshold)]_vars

\* C3 witness: with only course A visible and threshold 10, the position
\* exactly 10 m from control 31 marks a1 but not b1 of the hidden course B
\* at the same place, nor a2 which is farther away.
C3_Witness ==
    /\ lastOp.op = "position"
    /\ isTrackingEnabled
    /\ gpsPosition = Sample(6, 8)
    /\ visitDistanceThreshold = 10
    /\ selectedTab = "A"
    /\ prev.visitedControls = {}
    /\ visitedControls = {"a1"}

\* the visited set after the effect processes position p from the set v, with
\* the threshold, the flag and the visible courses of the current state
Processed(v, p) ==
    TrackingEffect(v, p, courses, visibleCourseIds(selectedTab, courses),
                   visitDistanceThreshold, isTrackingEnabled)

\* C4: duplicate and out-of-order positions are harmless: after two
\* consecutive position updates p1, p2 the visited set is the one that p2, p1
\* in the opposite order gives, and processing the same position again
\* changes nothing.
C4_DuplicateAndReorderHarmless ==
    [][lastOp.op = "position" /\ lastOp'.op = "position"
         => /\ visitedControls' =
                   Processed(Processed(prev.visitedControls, gpsPosition'),
                             gpsPosition)
            /\ (gpsPosition' = gpsPosition
                  => visitedControls' = visitedControls)
            /\ Processed(visitedControls', gpsPosition') = visitedControls']_vars

\* C4 witness: two different positions were processed with tracking enabled,
\* the earlier one marked a1 and the later one a2.
C4_Witness ==
    /\ lastOp.op = "position"
    /\ isTrackingEnabled /\ prev.isTrackingEnabled
    /\ gpsPosition = Sample(0, 45)
    /\ prev.gpsPosition = Sample(0, 0)
    /\ "a1" \in prev.visitedControls
    /\ "a2" \notin prev.visitedControls
    /\ {"a1", "a2"} \subseteq visitedControls

\* C5: resetVisitedControls empties visitedControls, whatever it held, and
\* leaves the threshold and the tracking flag unchanged.
C5_ResetClears ==
    [][lastOp'.op = "resetVisitedControls"
         => /\ visitedControls' = {}
            /\ \A id \in ControlIds(courses) :
                   ~isControlVisited(visitedControls', id)
            /\ visitDistanceThreshold' = visitDistanceThreshold
            /\ isTrackingEnabled' = isTrackingEnabled]_vars

\* C5 witness: a reset emptied a set of three visited controls while the
\* threshold was 15 and the held position was still on a control.
C5_Witness ==
    /\ lastOp.op = "resetVisitedControls"
    /\ Cardinality(prev.visitedControls) = 3
    /\ visitedControls = {}
    /\ visitDistanceThreshold = 15
    /\ isTrackingEnabled
    /\ gpsPosition = Sample(0, 0)

\* C6: setVisitDistanceThreshold(m) makes m the threshold and keeps every
\* visited control visited.
C6_ThresholdKeepsVisited ==
    [][lastOp'.op = "setVisitDistanceThreshold"
         => /\ visitDistanceThreshold' = lastOp'.arg
            /\ visitedControls \subseteq visitedControls']_vars

\* C6 witness: the threshold was lowered from 10 to 5 while a1, visited at
\* 10 m, is farther than 5 m from the held position, and a1 is still visited.
C6_Witness ==
    /\ lastOp.op = "setVisitDistanceThreshold"
    /\ prev.visitDistanceThreshold = 10
    /\ visitDistanceThreshold = 5
    /\ isTrackingEnabled
    /\ gpsPosition = Sample(6, 8)
    /\ "a1" \in prev.visitedControls
    /\ "a1" \in visitedControls
    /\ ~isWithinDistance(gpsPosition.position, Pos(0, 0), visitDistanceThreshold)

\* C7 (as claimed): processing an absent position, or one with a NaN or
\* out-of-range latitude or longitude, leaves visitedControls unchanged.
C7_InvalidPositionNoOp ==
    [][(lastOp'.op = "position"
        /\ (gpsPosition' = NULL \/ InvalidPosition(gpsPosition'.position)))
         => visitedControls' = visitedControls]_vars

-----------------------------------------------------------------------------
(* Entity deduplication: properties *)

\* position equality as === on lat and lng
SamePosition(p, q) == StrictEq(p.lat, q.lat) /\ StrictEq(p.lng, q.lng)

SameControl(x, y) == x.code = y.code /\ SamePosition(x.position, y.position)

\* the indices of the unique controls whose controlIds hold the id
HoldersOf(id) ==
    { k \in 1..Len(uniqueControls) : Includes(uniqueControls[k].controlIds, id) }

ControlsExtracted == pc \in {"controls", "starts", "done"}

\* C8: every Control.id is in the controlIds of exactly one UniqueControl,
\* and two control instances share a UniqueControl exactly when their code
\* and their position (lat and lng compared with ===) are equal.
C8_UniqueControlsPartition ==
    ControlsExtracted =>
        /\ \A x \in AllControls(courses) : Cardinality(HoldersOf(x.id)) = 1
        /\ \A x, y \in AllControls(courses) :
               (HoldersOf(x.id) \cap HoldersOf(y.id) # {}) <=> SameControl(x, y)

\* C8 witness: three instances, two of one control (one written with
\* latitude -0) and one of the same code at another position, gave two
\* unique controls.
C8_Witness ==
    /\ ControlsExtracted
    /\ Cardinality(AllControls(courses)) = 3
    /\ \E x, y \in AllControls(courses) :
           x.id # y.id /\ x.position # y.position /\ SameControl(x, y)
    /\ \E x, y \in AllControls(courses) :
           x.code = y.code /\ ~SamePosition(x.position, y.position)
    /\ Len(uniqueControls) = 2

\* the control of course i with the code and position of shape, if the course
\* has exactly one
InstancesIn(course, shape) ==
    { j \in 1..Len(course.controls) : SameControl(course.controls[j], shape) }

\* C9: a control that each of the N input courses contains once gives exactly
\* one UniqueControl, with N course entries in input course order and the N
\* ids of its instances; courses without controls give an empty result.
C9_SharedControlHasAllCourses ==
    ControlsExtracted =>
        /\ (AllControls(courses) = {} => uniqueControls = << >>)
        /\ \A shape \in AllControls(courses) :
               (\A i \in 1..Len(courses) :
                    Cardinality(InstancesIn(courses[i], shape)) = 1)
               => LET found == { k \in 1..Len(uniqueControls) :
                                    SameControl(uniqueControls[k], shape) }
                      inst(i) == courses[i].controls[
                                     CHOOSE j \in InstancesIn(courses[i], shape) :
                                         TRUE]
                  IN  /\ Cardinality(found) = 1
                      /\ \A k \in found :
                           /\ Len(uniqueControls[k].courses) = Len(courses)
                           /\ \A i \in 1..Len(courses) :
                                  /\ uniqueControls[k].courses[i].courseId
                                         = courses[i].id
                                  /\ uniqueControls[k].courses[i].controlNumber
                                         = inst(i).number
                           /\ uniqueControls[k].controlIds
                                  = [i \in 1..Len(courses) |-> inst(i).id]
                           /\ Cardinality(Range(uniqueControls[k].controlIds))
                                  = Len(courses)

\* C9 witness: two courses that both contain control 31 at (0, 0), one of
\* them after another control, gave one UniqueControl with two course
\* entries.
C9_Witness ==
    /\ ControlsExtracted
    /\ Len(courses) = MaxCourses
    /\ Cardinality(AllControls(courses)) = 3
    /\ \A i \in 1..Len(courses) :
           Cardinality(InstancesIn(courses[i],
                                   [code |-> "31", position |-> Pos(0, 0)])) = 1
    /\ \E k \in 1..Len(uniqueControls) :
           /\ Len(uniqueControls[k].courses) = MaxCourses
           /\ Len(uniqueControls[k].controlIds) = MaxCourses

RECURSIVE FirstOccurrences(_, _, _)
\* the elements of seq that equal (by same) none before them, in order
FirstOccurrences(seq, same(_, _), i) ==
    IF i > Len(seq) THEN << >>
    ELSE IF \E h \in 1..(i - 1) : same(seq[h], seq[i])
         THEN FirstOccurrences(seq, same, i + 1)
         ELSE << seq[i] >> \o FirstOccurrences(seq, same, i + 1)

\* C10: the extractors return the entities in the order of their first
\* occurrence in the input: unique controls in the order in which the
\* courses and their controls are traversed, unique starts and finishes in
\* course order.
C10_StableInsertionOrder ==
    pc = "done" =>
        /\ [k \in 1..Len(uniqueControls) |->
               [code |-> uniqueControls[k].code,
                position |-> uniqueControls[k].position]]
           = LET first == FirstOccurrences(FlatMapControls(courses),
                                           SameControl, 1)
             IN  [k \in 1..Len(first) |->
                     [code |-> first[k].code, position |-> first[k].position]]
        /\ [k \in 1..Len(uniqueStarts) |-> uniqueStarts[k].position]
           = FirstOccurrences([i \in 1..Len(courses) |-> courses[i].start],
                              SamePosition, 1)
        /\ [k \in 1..Len(uniqueFinishes) |-> uniqueFinishes[k].position]
           = FirstOccurrences([i \in 1..Len(courses) |-> courses[i].finish],
                              SamePosition, 1)

\* C10 witness: three control instances, the third a repeat of the first,
\* gave two unique controls in the order first, second.
C10_Witness ==
    /\ pc = "done"
    /\ Len(FlatMapControls(courses)) = 3
    /\ SameControl(FlatMapControls(courses)[1], FlatMapControls(courses)[3])
    /\ ~SameControl(FlatMapControls(courses)[1], FlatMapControls(courses)[2])
    /\ Len(uniqueControls) = 2
    /\ SameControl(uniqueControls[1], FlatMapControls(courses)[1])
    /\ SameControl(uniqueControls[2], FlatMapControls(courses)[2])

-----------------------------------------------------------------------------
(* Course line segmentation: properties *)

\* squared planar distance of a coordinate pair and a position
DistSq(coords, pos) ==
    (coords[1] - pos.lat.v) * (coords[1] - pos.lat.v)
        + (coords[2] - pos.lng.v) * (coords[2] - pos.lng.v)

\* the radius of the symbol drawn at waypoint i of a course: the start
\* triangle's vertex radius, a control circle, the outer finish circle
SymbolRadius(c, i) ==
    IF i = 1 THEN StartVertexRadius
    ELSE IF i = Len(Waypoints(c)) THEN FinishOuterRadius
    ELSE ControlRadius

LinesBuilt == geomPc \in {"lines", "edge"}

\* C11: createCoursePolylines returns k + 1 segments for a course with
\* k >= 1 controls and one segment for a course without controls, in running
\* order: segment j starts on or within the symbol of waypoint j and ends on
\* or within the symbol of waypoint j + 1 of start, controls, finish.
C11_SegmentsCountAndOrder ==
    LinesBuilt =>
        LET k == Len(geomCourse.controls)
            w == Waypoints(geomCourse)
        IN  /\ Len(polylines) = IF k = 0 THEN 1 ELSE k + 1
            /\ Len(polylines) = Len(w) - 1
            /\ \A j \in 1..Len(polylines) :
                   /\ DistSq(polylines[j][1], w[j])
                          <= SymbolRadius(geomCourse, j)
                                 * SymbolRadius(geomCourse, j)
                   /\ DistSq(polylines[j][2], w[j + 1])
                          <= SymbolRadius(geomCourse, j + 1)
                                 * SymbolRadius(geomCourse, j + 1)

\* C11 witness: a course with two controls, all four waypoints at different
\* places, gave three segments.
C11_Witness ==
    /\ LinesBuilt
    /\ Len(geomCourse.controls) = 2
    /\ Cardinality(Range(Waypoints(geomCourse))) = 4
    /\ Len(polylines) = 3

\* C12 (as claimed): no end point of a returned segment is strictly inside
\* the radius of a control circle, the start symbol or the outer finish
\* circle of the course.
C12_NoEndpointInsideSymbol ==
    LinesBuilt =>
        \A j \in 1..Len(polylines) : \A e \in 1..2 :
            \A i \in 1..Len(Waypoints(geomCourse)) :
                DistSq(polylines[j][e], Waypoints(geomCourse)[i])
                    >= SymbolRadius(geomCourse, i) * SymbolRadius(geomCourse, i)

\* C13 (as claimed): for a course without controls the single segment runs
\* from the vertex createStartMarker draws for a null first control (the
\* north vertex) to the finish position.
C13_ZeroControlsFromNorthVertex ==
    (LinesBuilt /\ Len(geomCourse.controls) = 0) =>
        polylines = << << createStartMarker(geomCourse.start, NULL).top,
                          transform(geomCourse.finish) >> >>

\* C13 (amended): for a course without controls the single segment runs from
\* the start position itself, which is the centre of the triangle and lies
\* StartVertexRadius south of the north vertex createStartMarker draws, to
\* the finish position.
C13_ZeroControlsFromStartPosition ==
    (LinesBuilt /\ Len(geomCourse.controls) = 0) =>
        /\ Len(polylines) = 1
        /\ polylines[1][1] = << geomCourse.start.lat.v, geomCourse.start.lng.v >>
        /\ polylines[1][2] = << geomCourse.finish.lat.v,
                                geomCourse.finish.lng.v >>
        /\ createStartMarker(geomCourse.start, NULL).top
               = << polylines[1][1][1] + StartVertexRadius, polylines[1][1][2] >>

\* C13 witness: a course without controls whose finish is 200 m north of its
\* start gave one segment.
C13_Witness ==
    /\ LinesBuilt
    /\ Len(geomCourse.controls) = 0
    /\ geomCourse.start = Pos(0, 0)
    /\ geomCourse.finish = Pos(2000, 0)
    /\ Len(polylines) = 1

\* p is on the segment from a to b (coordinate pairs)
OnSegment(p, a, b) ==
    LET cross == (b[1] - a[1]) * (p[2] - a[2]) - (b[2] - a[2]) * (p[1] - a[1])
        dot == (p[1] - a[1]) * (b[1] - a[1]) + (p[2] - a[2]) * (b[2] - a[2])
        len == (b[1] - a[1]) * (b[1] - a[1]) + (b[2] - a[2]) * (b[2] - a[2])
    IN  cross = 0 /\ 0 <= dot /\ dot <= len

\* C14 (as claimed): the edge point is at distance exactly r from the centre
\* and on the segment between from and centre; it is the centre when from
\* equals the centre.
C14_EdgePointOnSegment ==
    edge # NULL =>
        LET f == << edge.from.lat.v, edge.from.lng.v >>
            c == << edge.center.lat.v, edge.center.lng.v >>
        IN  IF f = c THEN edge.point = c
            ELSE /\ DistSq(edge.point, edge.center) = edge.radius * edge.radius
                 /\ OnSegment(edge.point, f, c)

\* C14 (amended): for from different from the centre the edge point is at
\* distance exactly r from the centre on the ray from the centre through
\* from; it is on the segment between from and centre exactly when from is at
\* least r from the centre, and otherwise from lies between the centre and
\* the edge point.  When from equals the centre the result is the centre.
C14_EdgePointOnRay ==
    edge # NULL =>
        LET f == << edge.from.lat.v, edge.from.lng.v >>
            c == << edge.center.lat.v, edge.center.lng.v >>
        IN  IF f = c THEN edge.point = c
            ELSE /\ DistSq(edge.point, edge.center) = edge.radius * edge.radius
                 /\ \/ OnSegment(edge.point, f, c)
                    \/ OnSegment(f, c, edge.point)
                 /\ OnSegment(edge.point, f, c)
                        <=> DistSq(f, edge.center) >= edge.radius * edge.radius

\* C14 witness: from is 30 m from the centre, closer than the radius 37.5 m,
\* and the edge point is 37.5 m from the centre, beyond from.
C14_Witness ==
    /\ edge # NULL
    /\ edge.radius = ControlRadius
    /\ DistSq(<< edge.from.lat.v, edge.from.lng.v >>, edge.center) = 300 * 300
    /\ DistSq(edge.point, edge.center) = ControlRadius * ControlRadius
    /\ ~OnSegment(edge.point, << edge.from.lat.v, edge.from.lng.v >>,
                  << edge.center.lat.v, edge.center.lng.v >>)

-----------------------------------------------------------------------------
(* Line width: properties *)

\* C15: calculateLineWidth is within [1, 10] pixels for every finite zoom:
\* it is 1 when targetWidthMeters / resolution is smaller than 1, 10 when
\* that is larger than 10, and that value otherwise.
C15_LineWidthClamped ==
    lineWidth # NULL =>
        LET pixelWidth == PixelWidth(lineWidth.zoom, lineWidth.latitude)
        IN  /\ lineWidth.width.kind = "num"
            /\ 1000 <= lineWidth.width.v
            /\ lineWidth.width.v <= 10000
            /\ Less(pixelWidth, Num(1000)) => lineWidth.width = Num(1000)
            /\ Less(Num(10000), pixelWidth) => lineWidth.width = Num(10000)
            /\ (~Less(pixelWidth, Num(1000)) /\ ~Less(Num(10000), pixelWidth))
                   => lineWidth.width = pixelWidth

\* C15 witness: at latitude 51 zoom 5 gave 1 pixel and then zoom 20 gave 10
\* pixels, as in the test of the clamp.
C15_Witness ==
    /\ lineWidth # NULL /\ lineWidthBefore # NULL
    /\ lineWidthBefore = [zoom |-> 5, latitude |-> 51, width |-> Num(1000)]
    /\ lineWidth = [zoom |-> 20, latitude |-> 51, width |-> Num(10000)]

\* C16: for a fixed latitude and zoom levels z1 < z2 the line width at z1 is
\* at most the line width at z2, and smaller when both widths are strictly
\* between 1 and 10 pixels.
C16_LineWidthMonotonic ==
    (/\ lineWidth # NULL /\ lineWidthBefore # NULL
     /\ lineWidthBefore.latitude = lineWidth.latitude
     /\ lineWidthBefore.zoom < lineWidth.zoom)
        => /\ ~Less(lineWidth.width, lineWidthBefore.width)
           /\ (/\ Less(Num(1000), lineWidthBefore.width)
               /\ Less(lineWidth.width, Num(10000)))
                  => Less(lineWidthBefore.width, lineWidth.width)

\* C16 witness: at latitude 51 the width grew from zoom 15 to zoom 16, both
\* strictly between 1 and 10 pixels.
C16_Witness ==
    /\ lineWidth # NULL /\ lineWidthBefore # NULL
    /\ lineWidthBefore.latitude = 51 /\ lineWidth.latitude = 51
    /\ lineWidthBefore.zoom = 15 /\ lineWidth.zoom = 16
    /\ Less(Num(1000), lineWidthBefore.width)
    /\ Less(lineWidthBefore.width, lineWidth.width)
    /\ Less(lineWidth.width, Num(10000))

-----------------------------------------------------------------------------
(* Label placement: properties *)

\* squared planar distance of two coordinate pairs
PairDistSq(p, q) ==
    (p[1] - q[1]) * (p[1] - q[1]) + (p[2] - q[2]) * (p[2] - q[2])

\* the candidate is at least 50 m from every placed label, 55 m from the
\* finish and 62 m from the start of the call
Acceptable(p, call) ==
    /\ \A i \in 1..Len(call.existingLabelPositions) :
           PairDistSq(p, call.existingLabelPositions[i]) >= 500 * 500
    /\ DistSq(p, call.finishPosition) >= 550 * 550
    /\ DistSq(p, call.startPosition) >= 620 * 620

\* C17: findNonOverlappingPosition returns the position of the first of the
\* candidates preferred, +180, +90, -90, +45, -45, +135, -135 that is at
\* least 50 m from every placed label, 55 m from the finish and 62 m from the
\* start, and the position at the preferred angle when there is none.
C17_FirstAcceptableCandidate ==
    label # NULL =>
        LET cands == Candidates(label.currentPos, label.prevPos, label.nextPos,
                                label.controlNumber)
            ok == { k \in 1..8 : Acceptable(cands[k], label) }
        IN  label.position =
                IF ok = {} THEN cands[1]
                ELSE cands[CHOOSE k \in ok : \A h \in ok : k <= h]

\* C17 witness: the first two candidates were taken by placed labels and the
\* call returned the third candidate, which differs from both.
C17_Witness ==
    /\ label # NULL
    /\ Len(label.existingLabelPositions) = 2
    /\ LET cands == Candidates(label.currentPos, label.prevPos, label.nextPos,
                               label.controlNumber)
       IN  /\ ~Acceptable(cands[1], label)
           /\ ~Acceptable(cands[2], label)
           /\ label.position = cands[3]
           /\ cands[3] # cands[1]

\* C17 second case: every candidate was rejected and the call returned the
\* position at the preferred angle.
C17_FallbackReached ==
    /\ label # NULL
    /\ \A k \in 1..8 :
           ~Acceptable(Candidates(label.currentPos, label.prevPos,
                                  label.nextPos, label.controlNumber)[k], label)
    /\ label.position = Candidates(label.currentPos, label.prevPos,
                                   label.nextPos, label.controlNumber)[1]

C19_ProjectedNothingDrawn ==
    useProjectedCoords =>
        /\ currentLayers = << >>
        /\ layerRef = NULL
        /\ ~courseTimeout
        /\ ~controlsTimeout
        /\ computed = [by |-> "none", entities |-> {}]
        /\ map => CourseWarning \in console
        /\ (map /\ Len(coursesForControls(selectedTab, courses)) > 0)
               => ControlsWarning \in console

\* C19 witness: a projected event with courses is loaded, the map is set,
\* one course is selected and the zoom has changed; both warnings were
\* logged and nothing is drawn.
C19_Witness ==
    /\ useProjectedCoords
    /\ map
    /\ selectedTab = "A"
    /\ zoomState = 16
    /\ Len(courses) = 2
    /\ console = {CourseWarning, ControlsWarning}
    /\ currentLayers = << >>
    /\ layerRef = NULL

\* the unique controls handed to createControlsLayer by the last callback
ControlsOfPass == extractUniqueControls(coursesForControls(selectedTab, courses))

\* the position of every waypoint of the course is a number
ValidCourse(c) ==
    \A i \in 1..Len(Waypoints(c)) : ~LatLngThrows(Waypoints(c)[i])

\* C20: after the callback of ControlsLayer every unique control with a
\* valid position has its circle in the controls layer, and after the
\* callback of CourseLayer every visible course with valid positions has its
\* layer on the map, whatever the other controls and courses of the pass are.
C20_InvalidEntitySkipped ==
    /\ computed.by = "ControlsLayer" =>
           \A i \in 1..Len(ControlsOfPass) :
               ~LatLngThrows(ControlsOfPass[i].position) =>
                   /\ layerRef # NULL
                   /\ \E k \in 1..Len(layerRef.layers) :
                          layerRef.layers[k] =
                              createControlMarker(ControlsOfPass[i], zoomState,
                                                  FALSE)
    /\ computed.by = "CourseLayer" =>
           LET shown == coursesForStartFinish(selectedTab, courses)
           IN  \A k \in 1..Len(shown) :
                   (shown[k].visible /\ ValidCourse(shown[k]))
                       => MapHas(currentLayers, shown[k].id)

\* a start call was the last operation (toggleTracking starts when the hook
\* flag was false before it, which leaves the flag true)
StartWasLast ==
    \/ gpsOp.op \in {"start", "startTracking"}
    \/ gpsOp.op = "toggleTracking" /\ hookIsTracking

\* C21: watchPosition is called at most once between two stop calls, at most
\* one watch is registered with the browser, and a start call made while a
\* watch is active leaves the watch id as it was.
C21_StartIdempotent ==
    /\ watchCalls <= 1
    /\ Cardinality(watchIDs) <= 1
    /\ (StartWasLast /\ gpsOp.before # NULL) => watchId = gpsOp.before

\* C21 witness: start was called while the watch with id 0 was active; the
\* id is unchanged and watchPosition was called once.
C21_Witness ==
    /\ gpsOp = [op |-> "start", before |-> Num(0)]
    /\ watchId = Num(0)
    /\ watchIDs = {0}
    /\ watchCalls = 1

\* C22: isTracking() is true exactly when a watch is registered with the
\* browser, and then it is the watch of watchId; it is false initially and
\* after stop, and after start it is true exactly when the browser has
\* geolocation.
C22_TrackingIffWatch ==
    /\ isTracking <=> watchIDs # {}
    /\ isTracking => watchIDs = {watchId.v}
    /\ gpsOp.op \in {"init", "stop", "stopTracking"} => ~isTracking
    /\ gpsOp.op \in {"start", "startTracking"} => (isTracking <=> geolocation)

\* C22 witness: startTracking on a browser without geolocation notified the
\* error subscriber of the hook and isTracking() is still false.
C22_Witness ==
    /\ ~geolocation
    /\ gpsOp.op = "startTracking"
    /\ hookError = UnsupportedError
    /\ ~isTracking

\* C23: whenever isTracking() is false, getLastPosition() is null.
C23_StoppedHasNoPosition ==
    ~isTracking => getLastPosition = NULL

\* C28: while the component is mounted, the isTracking flag of
\* useGPSTracking equals gpsTracker.isTracking().
C28_HookFlagMatchesTracker ==
    HookMounted => (hookIsTracking <=> isTracking)

\* C30: a delivered position becomes the last position and is passed once to
\* every callback subscribed when the delivery began, in subscription
\* order, whether or not one of them throws; no callback is invoked after its
\* unsubscribe function has run (the callback that unsubscribes itself during
\* its invocation being invoked that last time); a subscribe call made while
\* a last position is held invokes the new callback with that position.
C30_DeliveryToSubscribers ==
    /\ gpsOp.op = "handleSuccess" =>
           /\ lastPosition # NULL
           /\ [i \in 1..Len(invoked) |-> invoked[i].callback]
                  = gpsOp.subscribers
           /\ \A i \in 1..Len(invoked) : invoked[i].position = lastPosition
    /\ \A i \in 1..Len(invoked) :
           invoked[i].callback \in unsubscribed =>
               gpsOp.op = "handleSuccess" /\ invoked[i].callback = "once"
    /\ \A i \in 1..Len(callbacks) : callbacks[i] \notin unsubscribed
    /\ (gpsOp.op = "subscribe" /\ lastPosition # NULL) =>
           /\ Len(invoked) = 1
           /\ invoked[1].position = lastPosition
           /\ Includes(callbacks, invoked[1].callback)

\* C30 witness: a position was delivered with the throwing callback
\* subscribed first; the hook's callback and the self-unsubscribing callback
\* after it were invoked too and the hook holds the position.
C30_Witness ==
    /\ gpsOp.op = "handleSuccess"
    /\ gpsOp.subscribers = << "faulty", "hook", "once" >>
    /\ Len(invoked) = 3
    /\ hookPosition = lastPosition
    /\ callbacks = << "faulty", "hook" >>

\* C30 second case: a callback subscribed while a position was held was
\* invoked at once with it.
C30_ReplayReached ==
    /\ gpsOp.op = "subscribe"
    /\ lastPosition # NULL
    /\ invoked = << [callback |-> "faulty", position |-> lastPosition] >>

-----------------------------------------------------------------------------
(* Control visit tracking hook: which steps mark, and how often *)

\* the operations after which the effect of the hook may run
HookOps ==
    {"position", "setVisitDistanceThreshold", "setTrackingEnabled",
     "selectTab"}

NoDuplicates(array) ==
    \A i, j \in 1..Len(array) : array[i] = array[j] => i = j

\* a dependency of the effect changed in the step (a position sample is a
\* new object each time)
EffectRan ==
    \/ lastOp'.op = "position" /\ gpsPosition' # NULL
    \/ gpsPosition' # gpsPosition
    \/ visitDistanceThreshold' # visitDistanceThreshold
    \/ isTrackingEnabled' # isTrackingEnabled
    \/ selectedTab' # selectedTab

\* C25: already visited controls are skipped: the effect calls
\* markControlAsVisited only for ids not yet visited and at most once per id
\* in a pass (also when a control id occurs twice in the list), two
\* consecutive runs never mark the same id, the calls are exactly the ids
\* that enter visitedControls, a position that brings no new control within
\* the threshold causes no store update, and after a run of the effect a
\* further run on the same position and courses makes no call.
C25_VisitedControlsSkipped ==
    [][lastOp'.op \in HookOps
         => LET marks == lastOp'.marks
                visible == visibleCourseIds(selectedTab', courses)
            IN  /\ \A i \in 1..Len(marks) : marks[i] \notin visitedControls
                /\ NoDuplicates(marks)
                /\ Len(marks) <= Cardinality(ControlIds(courses))
                /\ visitedControls' = visitedControls \cup Range(marks)
                /\ (lastOp.op \in HookOps
                      => Range(lastOp.marks) \cap Range(marks) = {})
                /\ ((/\ lastOp'.op = "position"
                      /\ gpsPosition' # NULL
                      /\ InRangeIds(courses, visible, gpsPosition'.position,
                                    visitDistanceThreshold')
                             \subseteq visitedControls)
                      => marks = << >>)
                /\ (EffectRan
                      => MarkCalls(visitedControls', gpsPosition',
                                   selectedTab', visitDistanceThreshold',
                                   isTrackingEnabled', TRUE) = << >>)
                /\ (gpsPosition' # NULL
                      => LET controls == VisibleControls(courses, visible)
                         IN  NoDuplicates(
                                 ForEachMarked(controls \o controls,
                                               visitedControls,
                                               gpsPosition'.position,
                                               visitDistanceThreshold')))]_vars

\* C25 witness: a position on control 31 was processed while a1 was already
\* visited: a1 was skipped and only b1 was marked.
C25_Witness ==
    /\ lastOp.op = "position"
    /\ isTrackingEnabled
    /\ selectedTab = "all"
    /\ gpsPosition = Sample(0, 0)
    /\ "a1" \in prev.visitedControls
    /\ lastOp.marks = << "b1" >>

\* C25: a position in range of controls that are all visited already was
\* processed without any store update.
C25_QuietReached ==
    /\ lastOp.op = "position"
    /\ isTrackingEnabled
    /\ selectedTab = "all"
    /\ gpsPosition = Sample(0, 0)
    /\ {"a1", "b1"} \subseteq prev.visitedControls
    /\ lastOp.marks = << >>

\* the controls of the courses whose id is in the visible set, with that id
ControlsWithId(id, visible) ==
    { c \in AllControls(SelectSeq(courses,
                                  LAMBDA course : course.id \in visible)) :
        c.id = id }

\* C27: a control id enters visitedControls through the hook only in a step
\* after which tracking is enabled, a GPS position is held, the control
\* belongs to a course whose id is in visibleCourseIds and its Haversine
\* distance to the held position is at most the threshold in force; this
\* covers the runs triggered by a threshold, tab or tracking-flag change.
C27_HookMarksOnlyWhenAllHold ==
    [][lastOp'.op \in HookOps
         => \A id \in visitedControls' \ visitedControls :
                /\ isTrackingEnabled'
                /\ gpsPosition' # NULL
                /\ \E c \in ControlsWithId(id, visibleCourseIds(selectedTab',
                                                                courses)) :
                       LET d == calculateDistance(gpsPosition'.position,
                                                  c.position)
                       IN  ~IsNaN(d) /\ d.v <= visitDistanceThreshold']_vars

\* C27 witness: raising the threshold from 10 to 15 with only course A
\* visible re-evaluated the held position 11 m from control 31: a1 entered
\* the set, b1 of the hidden course did not.
C27_Witness ==
    /\ lastOp.op = "setVisitDistanceThreshold"
    /\ prev.visitDistanceThreshold = 10
    /\ visitDistanceThreshold = 15
    /\ isTrackingEnabled
    /\ selectedTab = "A"
    /\ gpsPosition = Sample(0, 11)
    /\ "a1" \notin prev.visitedControls
    /\ "a1" \in visitedControls
    /\ "b1" \notin visitedControls

-----------------------------------------------------------------------------
(* Average of two bearings: properties *)

\* the length of the shorter arc between two bearings, in hundredths
CircularDistance(x, y) ==
    LET d == Abs(x - y) % 36000
    IN  IF d > 36000 - d THEN 36000 - d ELSE d

\* C26: for bearings a and b in [0, 360) averageAngles(a, b) is in [0, 360)
\* and is the midpoint of the shorter arc between a and b: at the same
\* circular distance, half the arc and at most 90 degrees, from both; the
\* average of 350 and 10 is 0; for non-antipodal a and b it equals
\* averageAngles(b, a).
C26_AverageIsArcMidpoint ==
    angleAverage # NULL
      => LET a == angleAverage.angle1
             b == angleAverage.angle2
             m == angleAverage.average
         IN  /\ m >= 0 /\ m < 36000
             /\ CircularDistance(m, a) = CircularDistance(m, b)
             /\ 2 * CircularDistance(m, a) = CircularDistance(a, b)
             /\ CircularDistance(m, a) <= 9000
             /\ (a = 35000 /\ b = 1000 => m = 0)
             /\ (CircularDistance(a, b) # 18000 => m = averageAngles(b, a))

\* C26 witness: the average of 350 and 10 degrees was computed and is 0.
C26_Witness ==
    angleAverage = [angle1 |-> 35000, angle2 |-> 1000, average |-> 0]

\* C26: an antipodal pair was averaged: the result is a quarter turn from
\* both and differs from the result for the swapped pair.
C26_AntipodalReached ==
    /\ angleAverage # NULL
    /\ angleAverage.angle1 = 0
    /\ angleAverage.angle2 = 18000
    /\ angleAverage.average = 27000
    /\ averageAngles(18000, 0) = 9000

-----------------------------------------------------------------------------
(* CourseLayer: layers and visibility *)

\* the ids of the courses that have a layer on the map
LayerIds == { currentLayers[k].key : k \in 1..Len(currentLayers) }

\* the ids of the visible courses of the latest courses prop whose layer
\* createCourseLayer can build
VisibleIds ==
    LET shown == coursesForStartFinish(selectedTab, courses)
    IN  { shown[k].id : k \in { i \in 1..Len(shown) :
            /\ shown[i].visible
            /\ createCourseLayer(shown[i], zoomState,
                                 showPolylines(selectedTab)) # Thrown } }

\* C29 (as claimed): with the map set and geographic coordinates, in every
\* state with no CourseLayer timer pending the courses that have a layer on
\* the map are the visible courses of the latest props, one layer each, and
\* every layer was built at the current zoom.
C29_LayersMatchVisibility ==
    (map /\ ~useProjectedCoords /\ ~courseTimeout)
        => /\ LayerIds = VisibleIds
           /\ \A i, j \in 1..Len(currentLayers) :
                  currentLayers[i].key = currentLayers[j].key => i = j
           /\ \A k \in 1..Len(currentLayers) :
                  currentLayers[k].value.weight = calculateLineWidth(zoomState, 51)

\* C29: every change of a dependency of the effect leaves no layer on the
\* map, and a pending timer belongs to the render of the current props.
C29_RerunRemovesLayers ==
    [][(<< courses, useProjectedCoords, map, zoomState, selectedTab >>'
          # << courses, useProjectedCoords, map, zoomState, selectedTab >>)
         => /\ currentLayers' = << >>
            /\ courseTimeout' = (map' /\ ~useProjectedCoords')]_vars

\* C29: a tab change replaced the layers of two courses by the layer of the
\* selected one.
C29_SwitchReached ==
    /\ map /\ ~useProjectedCoords /\ ~courseTimeout
    /\ selectedTab = "B"
    /\ Len(courses) = 2
    /\ LayerIds = {"B"}

-----------------------------------------------------------------------------
(* ControlsLayer: the colour of the control markers *)

\* the step is the setTimeout callback of ControlsLayer and it drew a layer
ControlsDrawn ==
    controlsTimeout /\ ~controlsTimeout' /\ layerRef' # NULL

\* C24 (as claimed): the callback of ControlsLayer draws the marker of a
\* unique control in the visited colour if and only if at least one of its
\* controlIds is in visitedControls when the callback runs.
C24_VisitedColourIffVisited ==
    [][ControlsDrawn
         => \A i \in 1..Len(ControlsOfPass) :
                (layerRef'.layers[i].color = VisitedColor)
                    <=> (\E n \in 1..Len(ControlsOfPass[i].controlIds) :
                            ControlsOfPass[i].controlIds[n]
                                \in visitedControls)]_vars

\* C24: the layer was drawn while a1 was visited, and the marker of control
\* 31 has the unvisited colour.
C24_VisitedDrawnUnvisited ==
    /\ layerRef # NULL
    /\ computed.by = "ControlsLayer"
    /\ "a1" \in visitedControls
    /\ lastOp.op = "init" \/ "a1" \in prev.visitedControls
    /\ ControlsOfPass[1].code = "31"
    /\ layerRef.layers[1].color = UnvisitedColor

=============================================================================
